---- MODULE Spec2Model ----
(***************************************************************************)
(* Verification model of craby's iterative planner/executor pipeline       *)
(* (package agent, Pipeline.Run and its helpers).                           *)
(*                                                                         *)
(* One request is modelled: Pipeline.Run is a sequential process whose     *)
(* program counter is pc; the caller (who may cancel the context and who   *)
(* receives from the event channel) and the LM helper goroutine started by *)
(* synthesize run concurrently with it.  trace is a history variable that  *)
(* records, in program order, every event sent on the event channel, every *)
(* LM call, every tool invocation and the deferred close of the channel.   *)
(***************************************************************************)
EXTENDS Integers, Sequences, FiniteSets, TLC

----------------------------------------------------------------------------
(* Program constants *)

MaxIterations == 10

TokenChanCap == 100

(* Bounds of the model *)

\* longest step list of a plan the LM returns
MaxSteps == 2

\* the requests of a connection
MaxRequests == 2

\* the longest command, in atoms
MaxCmdLen == 3

\* the calls of a tool
MaxCalls == 2

\* the longest response of the schema LM, in pieces
MaxRespLen == 4

\* the step-log records one request writes
MaxRecords == 2

\* capacity of the event channel handed to Run by its caller
ChanCap == 1

----------------------------------------------------------------------------
(* Inputs *)

\* step ids and depends_on values the LM may write ("s9" names no step)
StepIds == {"s1", "s2"}

NoDep == ""

DepValues == {NoDep} \cup StepIds \cup {"s9"}

\* the tool registry: clock always succeeds, failing_tool always returns an
\* error; nonexistent_tool is not registered
RegisteredTools == {"clock", "failing_tool"}

ToolNames == RegisteredTools \cup {"nonexistent_tool"}

ToolFails(tool) == tool = "failing_tool"

StepValues == [ID : StepIds, DependsOn : DepValues, Tool : ToolNames]

RECURSIVE SeqsUpTo(_, _)
SeqsUpTo(S, n) ==
    IF n = 0 THEN {<<>>}
    ELSE LET shorter == SeqsUpTo(S, n - 1)
         IN  shorter \cup {Append(q, x) : q \in {r \in shorter : Len(r) = n - 1}, x \in S}

\* every plan text the LM may answer with on the first planning call
Plans == [NeedsTools : BOOLEAN, ReadyToAnswer : BOOLEAN, Steps : SeqsUpTo(StepValues, MaxSteps)]

ClockStep == [ID |-> "s1", DependsOn |-> NoDep, Tool |-> "clock"]

\* the plan texts the LM may answer with on the later planning calls
FollowUpPlans ==
    { [NeedsTools |-> TRUE,  ReadyToAnswer |-> FALSE, Steps |-> <<ClockStep>>],
      [NeedsTools |-> FALSE, ReadyToAnswer |-> TRUE,  Steps |-> <<>>],
      [NeedsTools |-> TRUE,  ReadyToAnswer |-> TRUE,  Steps |-> <<ClockStep>>],
      [NeedsTools |-> FALSE, ReadyToAnswer |-> FALSE, Steps |-> <<>>] }

\* the step lists of the plan texts of the fair specifications: no step, one
\* step of each tool, a chain whose second step fails, a cycle, a duplicated id
LiveSteps ==
    { <<>>,
      <<ClockStep>>,
      <<[ID |-> "s1", DependsOn |-> NoDep, Tool |-> "failing_tool"]>>,
      <<[ID |-> "s1", DependsOn |-> NoDep, Tool |-> "nonexistent_tool"]>>,
      <<[ID |-> "s2", DependsOn |-> "s1", Tool |-> "failing_tool"], ClockStep>>,
      <<[ID |-> "s1", DependsOn |-> "s2", Tool |-> "clock"],
        [ID |-> "s2", DependsOn |-> "s1", Tool |-> "clock"]>>,
      <<ClockStep, ClockStep>> }

LivePlans == [NeedsTools : BOOLEAN, ReadyToAnswer : BOOLEAN, Steps : LiveSteps]

NoPlan == [NeedsTools |-> FALSE, ReadyToAnswer |-> FALSE, Steps |-> <<>>]

Msg(role, content) == [Role |-> role, Content |-> content]

\* the (options.History, userMessage) pairs Run is called with
RunInputs ==
    { [History |-> <<>>, userMessage |-> "What is 2+2?"],
      [History |-> <<Msg("user", "hi"), Msg("assistant", "hello")>>, userMessage |-> ""] }

\* what the LM does on the synthesis call: the tokens it streams, and whether
\* the call then returns an error
SynthScripts ==
    { [tokens |-> <<>>, fail |-> FALSE],
      [tokens |-> <<"It is ", "12:00 PM.">>, fail |-> FALSE],
      [tokens |-> <<"It is ">>, fail |-> TRUE] }

----------------------------------------------------------------------------
(* State *)

VARIABLES
    pc,           \* position of Pipeline.Run
    ctxDone,      \* the request context has been cancelled
    opts,         \* RunOptions.History of the call
    userMessage,  \* the user utterance of the call
    iteration,    \* loop counter of Run
    plan,         \* plan of the current iteration
    allResults,   \* accumulated StepResults
    ordered,      \* execute: steps in execution order
    stepIdx,      \* execute: index of the current step in ordered
    results,      \* execute: StepResults of this iteration
    toolErr,      \* execute: the current tool returned an error
    eventChan,    \* buffered content of the event channel
    tokenChan,    \* synthesize: buffered content of the token channel
    tokenClosed,  \* synthesize: the LM has closed the token channel
    lmTokens,     \* LM helper: tokens still to stream
    lmFail,       \* LM helper: the synthesis call returns an error
    response,     \* LM helper: text streamed so far (the call's return value)
    content,      \* synthesize: contentBuilder
    retHistory,   \* history returned by Run
    retErr,       \* error returned by Run ("" is nil)
    trace,        \* history variable: everything Run did, in order
    hpc,          \* position of the Handler serving the request ("off": none)
    hHistory,     \* Handler.history
    hErr,         \* error returned by processChat ("" is nil)
    frames,       \* history variable: the frames written to the connection
    connBroken,   \* the client is gone: writes to the connection fail
    messages,       \* Agent.Run: the messages sent to the LM
    bufferedTokens, \* Agent.Run: tokens of the current round, not yet emitted
    toolCalls,      \* Agent.Run: tool calls of the result still to process
    lmCalls,        \* LM helper: the tool calls of the result it returns
    connState,    \* Server: per connection, where its HandleChat is
    reqHistory,   \* Server: per connection, the opts.History of its request
    reqCount,     \* Server: per connection, the requests it has made
    sessLog,      \* history variable: per request, the connection and its opts.History
    shPc,          \* ShellTool.Execute: position
    shArg,         \* ShellTool.Execute: args["command"]
    shEnabled,     \* settings.Tools.Shell.Enabled
    helpCache,     \* ShellTool.helpCache: the base commands discovered
    spawned,       \* history variable: the processes started by this call
    discoveryInfo, \* ShellTool.Execute: the discovery text of a first use
    shOutcome,     \* the spawned command's exit, stdout and stderr
    shOutput,      \* ShellTool.Execute: returned output
    shErr,         \* ShellTool.Execute: returned error
    shCalls,       \* the calls of Execute made so far
    dPc,       \* GetCommandSchemaTool.Execute: position
    dArg,      \* GetCommandSchemaTool.Execute: args
    dLLM,      \* the schema LM: absent, failing, or its response
    dHelp,     \* getHelpText: the output of the help command
    dSpawned,  \* history variable: the help commands started
    dResult,   \* GetCommandSchemaTool.Execute: returned result
    dErr,      \* GetCommandSchemaTool.Execute: returned error
    slIndex,   \* StepLogger.index
    slPc,      \* per concurrent request of one Pipeline: where its Run is
    slLog,     \* history variable: the step-log records written, in order
    cPc,       \* per goroutine calling ShellTool.Execute: its position
    cBase,     \* per goroutine: the base command of its call
    cText,     \* per goroutine: discoveryText / the returned discoveryInfo
    cLog,      \* history variable: discoveries run and calls returned
    oRun,      \* per connection: its processChat is serving a request
    oReq,      \* per connection: the requests it has started
    observer,  \* ShellTool: the event channel the installed observer sends on
    oClosed,   \* the event channels that have been closed
    oSends     \* history variable: the sends the observer has made

vars == <<pc, ctxDone, opts, userMessage, iteration, plan, allResults, ordered,
          stepIdx, results, toolErr, eventChan, tokenChan, tokenClosed, lmTokens,
          lmFail, response, content, retHistory, retErr, trace,
          hpc, hHistory, hErr, frames, connBroken,
          messages, bufferedTokens, toolCalls, lmCalls,
          connState, reqHistory, reqCount, sessLog,
          shPc, shArg, shEnabled, helpCache, spawned, discoveryInfo, shOutcome,
          shOutput, shErr, shCalls,
          dPc, dArg, dLLM, dHelp, dSpawned, dResult, dErr,
          slIndex, slPc, slLog, cPc, cBase, cText, cLog,
          oRun, oReq, observer, oClosed, oSends>>

execVars == <<ordered, stepIdx, results, toolErr>>
synthVars == <<tokenChan, tokenClosed, lmTokens, lmFail, response, content>>
callVars == <<opts, userMessage>>
hVars == <<hpc, hHistory, hErr, frames, connBroken>>
agentVars == <<messages, bufferedTokens, toolCalls, lmCalls>>

sessVars == <<connState, reqHistory, reqCount, sessLog>>
shellVars == <<shPc, shArg, shEnabled, helpCache, spawned, discoveryInfo, shOutcome,
               shOutput, shErr, shCalls>>
discVars == <<dPc, dArg, dLLM, dHelp, dSpawned, dResult, dErr>>

logVars == <<slIndex, slPc, slLog>>
concVars == <<cPc, cBase, cText, cLog>>
obsVars == <<oRun, oReq, observer, oClosed, oSends>>

\* the variables of the specifications of the shared objects
extraVars == <<logVars, concVars, obsVars>>

\* the variables of the components other than the pipeline and the handler
otherVars == <<agentVars, sessVars, shellVars, discVars, extraVars>>

AgentIdle ==
    /\ messages = <<>>
    /\ bufferedTokens = <<>>
    /\ toolCalls = <<>>
    /\ lmCalls = <<>>

Conns == {"c1", "c2"}

SessIdle ==
    /\ connState = [c \in Conns |-> "new"]
    /\ reqHistory = [c \in Conns |-> <<>>]
    /\ reqCount = [c \in Conns |-> 0]
    /\ sessLog = <<>>

NoArg == [kind |-> "missing", cmd |-> <<>>]

NoOutcome == [exit |-> "none", stdout |-> "", stderr |-> ""]

ShellIdle ==
    /\ shPc = "off"
    /\ shArg = NoArg
    /\ shEnabled = TRUE
    /\ helpCache = {}
    /\ spawned = <<>>
    /\ discoveryInfo = ""
    /\ shOutcome = NoOutcome
    /\ shOutput = ""
    /\ shErr = ""
    /\ shCalls = 0

NoLLM == [present |-> FALSE, fail |-> FALSE, response |-> <<>>]

DiscIdle ==
    /\ dPc = "off"
    /\ dArg = [command |-> <<>>, subcommand |-> <<>>]
    /\ dLLM = NoLLM
    /\ dHelp = ""
    /\ dSpawned = <<>>
    /\ dResult = <<>>
    /\ dErr = ""

\* the requests running on one Pipeline
Runs == {"r1", "r2"}

LogIdle ==
    /\ slIndex = 0
    /\ slPc = [r \in Runs |-> "off"]
    /\ slLog = <<>>

\* the goroutines calling Execute on one ShellTool
Goroutines == {"g1", "g2"}

ConcIdle ==
    /\ cPc = [g \in Goroutines |-> "off"]
    /\ cBase = [g \in Goroutines |-> ""]
    /\ cText = [g \in Goroutines |-> ""]
    /\ cLog = <<>>

NoChan == <<"none", 0>>

ObsIdle ==
    /\ oRun = [c \in Conns |-> FALSE]
    /\ oReq = [c \in Conns |-> 0]
    /\ observer = NoChan
    /\ oClosed = {}
    /\ oSends = <<>>

ExtraIdle == LogIdle /\ ConcIdle /\ ObsIdle

\* the other components are not in use
OthersIdle == AgentIdle /\ SessIdle /\ ShellIdle /\ DiscIdle /\ ExtraIdle

NoHistory == <<>>

EventKinds == {"PlanGenerated", "StepStarted", "ToolCall", "ToolResult", "Text"}

\* a trace entry; for PlanGenerated ok is plan.ReadyToAnswer, flag is
\* plan.NeedsTools and n is len(plan.Steps); for ToolResult ok is ToolSuccess
\* and out is ToolOutput; for Text name is the token and id the role; for
\* Outcome (the return of registry.Execute) ok is err == nil and out is the
\* output, or the error message when there is an error; for PlanCall and
\* SynthCall prompt is the rendering of the tool results in the system prompt
Entry(kind, id, name, ok, flag, n) ==
    [kind |-> kind, iter |-> iteration, id |-> id, name |-> name,
     ok |-> ok, flag |-> flag, n |-> n, out |-> "", prompt |-> <<>>]

Mark(kind) == Entry(kind, "", "", FALSE, FALSE, 0)

----------------------------------------------------------------------------
(* Pure functions of the pipeline *)

ParsePlanAccepts_lenient(p) == TRUE

\* ParsePlan's consistency check: needs_tools with no steps is rejected
\* unless ready_to_answer
ParsePlanAccepts(p) == ~(p.NeedsTools /\ Len(p.Steps) = 0 /\ ~p.ReadyToAnswer)

RegistryGet(tool) == tool \in RegisteredTools

LoopContinues_offByOne(iter) == iter <= MaxIterations

\* Run: the condition of the planning loop
LoopContinues(iter) == iter < MaxIterations

ReadyToSynthesize_onlyWhenReady(p) == p.ReadyToAnswer

ReadyToSynthesize_onlyWithoutSteps(p) == Len(p.Steps) = 0 /\ (p.ReadyToAnswer \/ ~p.NeedsTools)

\* Run: the "ready to synthesize" test
ReadyToSynthesize(p) == p.ReadyToAnswer \/ (~p.NeedsTools /\ Len(p.Steps) = 0)

NeedsExecution_anySteps(p) == Len(p.Steps) > 0

\* Run: the test guarding validate and execute
NeedsExecution(p) == p.NeedsTools /\ Len(p.Steps) > 0

\* validate: "" when the plan passes, else the first error found
RECURSIVE validateFrom(_, _)
validateFrom(p, i) ==
    IF i > Len(p.Steps) THEN ""
    ELSE LET step == p.Steps[i]
         IN  IF ~RegistryGet(step.Tool) THEN "unknown tool"
             ELSE IF step.DependsOn # NoDep
                     /\ ~\E j \in 1..Len(p.Steps) : p.Steps[j].ID = step.DependsOn
                  THEN "depends on unknown step"
                  ELSE validateFrom(p, i + 1)

validate_firstStepOnly(p) ==
    IF Len(p.Steps) = 0 \/ RegistryGet(p.Steps[1].Tool) THEN "" ELSE "unknown tool"

validate(p) == validateFrom(p, 1)

\* executionOrder: the maps it builds
StepIDsOf(steps) == {steps[i].ID : i \in 1..Len(steps)}

stepMap(steps) ==
    [id \in StepIDsOf(steps) |->
        steps[CHOOSE i \in 1..Len(steps) :
                /\ steps[i].ID = id
                /\ \A j \in 1..Len(steps) : steps[j].ID = id => j <= i]]

inDegree(steps) ==
    [id \in StepIDsOf(steps) |->
        Cardinality({i \in 1..Len(steps) : steps[i].ID = id /\ steps[i].DependsOn # NoDep})]

RECURSIVE dependentsFrom(_, _, _)
dependentsFrom(steps, dep, i) ==
    IF i > Len(steps) THEN <<>>
    ELSE (IF steps[i].DependsOn = dep /\ dep # NoDep THEN <<steps[i].ID>> ELSE <<>>)
         \o dependentsFrom(steps, dep, i + 1)

dependents(steps, dep) == dependentsFrom(steps, dep, 1)

\* the inner loop of Kahn's algorithm: <<inDegree, queue>> after the
\* dependents deps of a popped step have been decremented
RECURSIVE releaseDependents(_, _, _)
releaseDependents(deps, deg, queue) ==
    IF deps = <<>> THEN <<deg, queue>>
    ELSE LET d    == Head(deps)
             deg2 == [deg EXCEPT ![d] = deg[d] - 1]
         IN  releaseDependents(Tail(deps), deg2,
                               IF deg2[d] = 0 THEN Append(queue, d) ELSE queue)

RECURSIVE kahn(_, _, _, _)
kahn(steps, queue, deg, result) ==
    IF queue = <<>> THEN result
    ELSE LET id  == Head(queue)
             rel == releaseDependents(dependents(steps, id), deg, Tail(queue))
         IN  kahn(steps, rel[2], rel[1], Append(result, stepMap(steps)[id]))

Perms(S) == {q \in [1..Cardinality(S) -> S] : \A i, j \in 1..Cardinality(S) : q[i] = q[j] => i = j}

executionOrder_asListed(steps) == {[err |-> "", order |-> steps]}

executionOrder_noCycleCheck(steps) ==
    IF Len(steps) = 0 THEN {[err |-> "", order |-> <<>>]}
    ELSE LET deg  == inDegree(steps)
             zero == {id \in StepIDsOf(steps) : deg[id] = 0}
         IN  {[err |-> "", order |-> kahn(steps, queue, deg, <<>>)] : queue \in Perms(zero)}

executionOrder_countsDistinctIds(steps) ==
    IF Len(steps) = 0 THEN {[err |-> "", order |-> <<>>]}
    ELSE LET deg  == inDegree(steps)
             zero == {id \in StepIDsOf(steps) : deg[id] = 0}
         IN  { LET result == kahn(steps, queue, deg, <<>>)
               IN  IF Len(result) # Cardinality(StepIDsOf(steps))
                   THEN [err |-> "circular dependency detected in plan steps", order |-> <<>>]
                   ELSE [err |-> "", order |-> result]
               : queue \in Perms(zero) }

\* executionOrder: the results it may return.  The initial queue is filled by
\* ranging over a Go map, whose iteration order is unspecified.
executionOrder(steps) ==
    IF Len(steps) = 0 THEN {[err |-> "", order |-> <<>>]}
    ELSE LET deg  == inDegree(steps)
             zero == {id \in StepIDsOf(steps) : deg[id] = 0}
         IN  { LET result == kahn(steps, queue, deg, <<>>)
               IN  IF Len(result) # Len(steps)
                   THEN [err |-> "circular dependency detected in plan steps", order |-> <<>>]
                   ELSE [err |-> "", order |-> result]
               : queue \in Perms(zero) }

AfterStep_stopsOnFailure(idx, failed) == IF failed THEN Len(ordered) + 1 ELSE idx + 1

\* execute: the index of the step the loop goes on with after a step whose
\* tool failed or not (a failure is recorded and the loop continues)
AfterStep(idx, failed) == idx + 1

CtxErr_neverSet(done) == ""

\* ctx.Err() after the non-blocking select on ctx.Done(): "" is nil
CtxErr(done) == IF done THEN "context canceled" ELSE ""

Accumulate_keepsLatest(all, new) == new

\* Run: allResults = append(allResults, results...)
Accumulate(all, new) == all \o new

\* formatToolResults: the text put in place of {{TOOL_RESULTS}}, as the
\* sequence of its blocks: one block per StepResult, in order, showing the
\* output of a successful step and the error of a failed one
formatToolResults(rs) ==
    IF Len(rs) = 0 THEN <<"(No tool results - direct answer)">>
    ELSE [i \in 1..Len(rs) |->
            [Step |-> rs[i].StepID, Tool |-> rs[i].Tool,
             Label |-> IF rs[i].Success THEN "Output" ELSE "Error",
             Body |-> IF rs[i].Success THEN rs[i].Output ELSE rs[i].Error]]

BuildHistory_echoesUser(history, message, answer) ==
    history \o <<Msg("user", message), Msg("assistant", message)>>

BuildHistory_dropsUser(history, message, answer) ==
    history \o <<Msg("assistant", answer)>>

\* Run: the history it returns on success
BuildHistory(history, message, answer) ==
    history \o <<Msg("user", message), Msg("assistant", answer)>>

----------------------------------------------------------------------------
(* Initial state: Run has been called *)

Init ==
    /\ pc = "start"
    /\ ctxDone \in BOOLEAN
    /\ \E in \in RunInputs : opts = in.History /\ userMessage = in.userMessage
    /\ iteration = 0
    /\ plan = NoPlan
    /\ allResults = <<>>
    /\ ordered = <<>>
    /\ stepIdx = 1
    /\ results = <<>>
    /\ toolErr = FALSE
    /\ eventChan = <<>>
    /\ tokenChan = <<>>
    /\ tokenClosed = FALSE
    /\ lmTokens = <<>>
    /\ lmFail = FALSE
    /\ response = ""
    /\ content = ""
    /\ retHistory = NoHistory
    /\ retErr = ""
    /\ trace = <<>>
    /\ hpc = "off"
    /\ hHistory = opts
    /\ hErr = ""
    /\ frames = <<>>
    /\ connBroken = FALSE
    /\ OthersIdle

----------------------------------------------------------------------------
(* Helpers of the actions *)

\* the plan texts the LM may answer with on the planning call of an iteration
PlanTexts(iter) == IF iter = 0 THEN Plans ELSE FollowUpPlans

EventChanClosed == \E i \in 1..Len(trace) : trace[i].kind = "Close"

\* eventChan <- e: blocks while the channel is full
Send(e) ==
    /\ Len(eventChan) < ChanCap
    /\ eventChan' = Append(eventChan, e)

Return_leaksOnError(history, err, tr) ==
    /\ pc' = "done"
    /\ retHistory' = history
    /\ retErr' = err
    /\ trace' = IF err = "" THEN Append(tr, Mark("Close")) ELSE tr

\* return from Run; the deferred close(eventChan) runs
Return(history, err, tr) ==
    /\ pc' = "done"
    /\ retHistory' = history
    /\ retErr' = err
    /\ trace' = Append(tr, Mark("Close"))

\* registry.Execute: TRUE when it returns an error
RegistryExecuteFails(tool) == ~RegistryGet(tool) \/ ToolFails(tool)

ToolOutput(tool) == IF tool = "clock" THEN "12:00 PM" ELSE ""

ToolError(tool) == IF RegistryGet(tool) THEN "tool failed" ELSE "tool not found"

StepResultOf_keepsRawOutput(step, failed) ==
    [StepID  |-> step.ID,
     Tool    |-> step.Tool,
     Output  |-> ToolOutput(step.Tool),
     Success |-> ~failed,
     Error   |-> IF failed THEN ToolError(step.Tool) ELSE ""]

\* execute: the StepResult appended for a step (its Output and Success are
\* also the ToolOutput and ToolSuccess of the ToolResult event)
StepResultOf(step, failed) ==
    [StepID  |-> step.ID,
     Tool    |-> step.Tool,
     Output  |-> IF failed THEN "Error: " \o ToolError(step.Tool) ELSE ToolOutput(step.Tool),
     Success |-> ~failed,
     Error   |-> IF failed THEN ToolError(step.Tool) ELSE ""]

----------------------------------------------------------------------------
(* Pipeline.Run *)

\* entry of Run: defer close(eventChan), step logger reset
RunStart ==
    /\ pc = "start"
    /\ pc' = "loop"
    /\ UNCHANGED <<ctxDone, callVars, hVars, otherVars, iteration, plan, allResults, execVars,
                   eventChan, synthVars, retHistory, retErr, trace>>

\* the loop header of Run and the cancellation check at the top of the body
IterCheck ==
    /\ pc = "loop"
    /\ IF ~LoopContinues(iteration)
       THEN /\ pc' = "synth"
            /\ UNCHANGED <<retHistory, retErr, trace>>
       ELSE IF CtxErr(ctxDone) # ""
            THEN Return(NoHistory, CtxErr(ctxDone), trace)
            ELSE /\ pc' = "plan"
                 /\ UNCHANGED <<retHistory, retErr, trace>>
    /\ UNCHANGED <<ctxDone, callVars, hVars, otherVars, iteration, plan, allResults, execVars,
                   eventChan, synthVars>>

PlanAccepted_noEvent(p, tr) ==
    /\ plan' = p
    /\ pc' = "dispatch"
    /\ trace' = tr
    /\ UNCHANGED <<retHistory, retErr>>

\* Run: planWithResults returned a plan; the plan is logged and the
\* PlanGenerated event is due
PlanAccepted(p, tr) ==
    /\ plan' = p
    /\ pc' = "emitPlan"
    /\ trace' = tr
    /\ UNCHANGED <<retHistory, retErr>>

\* planWithResults: the planning LM call and ParsePlan, the LM answering with
\* one of the given plan texts when it answers with a plan
PlanCallFrom(texts) ==
    /\ pc = "plan"
    /\ LET tr == Append(trace, [Mark("PlanCall") EXCEPT !.prompt = formatToolResults(allResults)])
       IN  \/ /\ Return(NoHistory, "planning failed: lm error", tr)
              /\ plan' = plan
           \/ /\ Return(NoHistory, "planning failed: no plan block", tr)
              /\ plan' = plan
           \/ \E p \in texts :
                IF ParsePlanAccepts(p)
                THEN PlanAccepted(p, tr)
                ELSE /\ Return(NoHistory, "planning failed: needs_tools without steps", tr)
                     /\ plan' = plan
    /\ UNCHANGED <<ctxDone, callVars, hVars, otherVars, iteration, allResults, execVars,
                   eventChan, synthVars>>

PlanCall == PlanCallFrom(PlanTexts(iteration))

\* the planning call with the LM answering the first call with one of
\* LivePlans
LivePlanCall == PlanCallFrom(IF iteration = 0 THEN LivePlans ELSE FollowUpPlans)

\* Run: the PlanGenerated event
EmitPlanGenerated ==
    /\ pc = "emitPlan"
    /\ LET e == Entry("PlanGenerated", "", "", plan.ReadyToAnswer, plan.NeedsTools,
                      Len(plan.Steps))
       IN  Send(e) /\ trace' = Append(trace, e)
    /\ pc' = "dispatch"
    /\ UNCHANGED <<ctxDone, callVars, hVars, otherVars, iteration, plan, allResults, execVars,
                   synthVars, retHistory, retErr>>

\* the rest of the loop body of Run, up to the first step of execute: the
\* ready-to-synthesize test, validate and executionOrder
Dispatch ==
    /\ pc = "dispatch"
    /\ IF ReadyToSynthesize(plan)
       THEN /\ pc' = "synth"
            /\ plan' = NoPlan
            /\ UNCHANGED <<iteration, execVars, retHistory, retErr, trace>>
       ELSE IF NeedsExecution(plan)
       THEN IF validate(plan) # ""
            THEN /\ Return(NoHistory, "validation failed: " \o validate(plan), trace)
                 /\ UNCHANGED <<iteration, plan, execVars>>
            ELSE \E r \in executionOrder(plan.Steps) :
                   IF r.err # ""
                   THEN /\ Return(NoHistory, "execution failed: " \o r.err, trace)
                        /\ UNCHANGED <<iteration, plan, execVars>>
                   ELSE /\ ordered' = r.order
                        /\ stepIdx' = 1
                        /\ results' = <<>>
                        /\ pc' = "step"
                        /\ UNCHANGED <<iteration, plan, toolErr, retHistory, retErr, trace>>
       ELSE /\ iteration' = iteration + 1
            /\ pc' = "loop"
            /\ plan' = NoPlan
            /\ UNCHANGED <<execVars, retHistory, retErr, trace>>
    /\ UNCHANGED <<ctxDone, callVars, hVars, otherVars, allResults, eventChan, synthVars>>

\* execute: the loop header over the ordered steps and the cancellation
\* check; when the loop is over, Run accumulates the results and iterates
StepCheck ==
    /\ pc = "step"
    /\ IF stepIdx > Len(ordered)
       THEN /\ allResults' = Accumulate(allResults, results)
            /\ iteration' = iteration + 1
            /\ plan' = NoPlan
            /\ ordered' = <<>>
            /\ results' = <<>>
            /\ stepIdx' = 1
            /\ pc' = "loop"
            /\ UNCHANGED <<retHistory, retErr, trace>>
       ELSE IF CtxErr(ctxDone) # ""
            THEN /\ Return(NoHistory, "execution failed: " \o CtxErr(ctxDone), trace)
                 /\ UNCHANGED <<allResults, iteration, plan, ordered, results, stepIdx>>
            ELSE /\ pc' = "stepStarted"
                 /\ UNCHANGED <<allResults, iteration, plan, ordered, results, stepIdx,
                                retHistory, retErr, trace>>
    /\ UNCHANGED <<ctxDone, callVars, hVars, otherVars, toolErr, eventChan, synthVars>>

\* execute: the StepStarted event
EmitStepStarted ==
    /\ pc = "stepStarted"
    /\ LET step == ordered[stepIdx]
           e    == Entry("StepStarted", "", step.Tool, FALSE, FALSE, 0)
       IN  Send(e) /\ trace' = Append(trace, e)
    /\ pc' = "toolCall"
    /\ UNCHANGED <<ctxDone, callVars, hVars, otherVars, iteration, plan, allResults, execVars,
                   synthVars, retHistory, retErr>>

EmitToolCall_firstStepId ==
    /\ pc = "toolCall"
    /\ LET e == Entry("ToolCall", ordered[1].ID, ordered[stepIdx].Tool, FALSE, FALSE, 0)
       IN  Send(e) /\ trace' = Append(trace, e)
    /\ pc' = "exec"
    /\ UNCHANGED <<ctxDone, callVars, hVars, otherVars, iteration, plan, allResults, execVars,
                   synthVars, retHistory, retErr>>

\* execute: the ToolCall event
EmitToolCall ==
    /\ pc = "toolCall"
    /\ LET step == ordered[stepIdx]
           e    == Entry("ToolCall", step.ID, step.Tool, FALSE, FALSE, 0)
       IN  Send(e) /\ trace' = Append(trace, e)
    /\ pc' = "exec"
    /\ UNCHANGED <<ctxDone, callVars, hVars, otherVars, iteration, plan, allResults, execVars,
                   synthVars, retHistory, retErr>>

\* execute: the call registry.Execute(step.Tool, args); the tool is given the
\* arguments only, and runs
ExecuteTool ==
    /\ pc = "exec"
    /\ LET step == ordered[stepIdx]
       IN  trace' = Append(trace, Entry("Invoke", step.ID, step.Tool, FALSE, FALSE, 0))
    /\ pc' = "running"
    /\ UNCHANGED <<ctxDone, callVars, hVars, otherVars, iteration, plan, allResults, execVars,
                   eventChan, synthVars, retHistory, retErr>>

\* execute: registry.Execute returns (output, err); the tool ends by itself
\* (ShellTool: the command exits, or its own 30 s deadline passes)
ToolReturn ==
    /\ pc = "running"
    /\ LET step   == ordered[stepIdx]
           failed == RegistryExecuteFails(step.Tool)
       IN  /\ toolErr' = failed
           /\ trace' = Append(trace,
                  [Entry("Outcome", step.ID, step.Tool, ~failed, FALSE, 0)
                      EXCEPT !.out = IF failed THEN ToolError(step.Tool)
                                              ELSE ToolOutput(step.Tool)])
    /\ pc' = "toolResult"
    /\ UNCHANGED <<ctxDone, callVars, hVars, otherVars, iteration, plan, allResults, ordered, stepIdx,
                   results, eventChan, synthVars, retHistory, retErr>>

\* execute: the ToolResult event and the StepResult; a failed step does not
\* end the loop
EmitToolResult ==
    /\ pc = "toolResult"
    /\ LET step == ordered[stepIdx]
           r    == StepResultOf(step, toolErr)
           e    == [Entry("ToolResult", step.ID, step.Tool, r.Success, FALSE, 0)
                       EXCEPT !.out = r.Output]
       IN  /\ Send(e)
           /\ trace' = Append(trace, e)
           /\ results' = Append(results, r)
    /\ stepIdx' = AfterStep(stepIdx, toolErr)
    /\ pc' = "step"
    /\ UNCHANGED <<ctxDone, callVars, hVars, otherVars, iteration, plan, allResults, ordered, toolErr,
                   synthVars, retHistory, retErr>>

\* synthesize: the channels are made and the LM helper goroutine is started
SynthStart ==
    /\ pc = "synth"
    /\ \E s \in SynthScripts : lmTokens' = s.tokens /\ lmFail' = s.fail
    /\ tokenChan' = <<>>
    /\ tokenClosed' = FALSE
    /\ response' = ""
    /\ content' = ""
    /\ trace' = Append(trace, [Mark("SynthCall") EXCEPT !.prompt = formatToolResults(allResults)])
    /\ pc' = "stream"
    /\ UNCHANGED <<ctxDone, callVars, hVars, otherVars, iteration, plan, allResults, execVars,
                   eventChan, retHistory, retErr>>

\* LM helper: ChatMessages streams one token into the token channel
LMStream ==
    /\ pc = "stream"
    /\ lmTokens # <<>>
    /\ Len(tokenChan) < TokenChanCap
    /\ tokenChan' = Append(tokenChan, Head(lmTokens))
    /\ response' = response \o Head(lmTokens)
    /\ lmTokens' = Tail(lmTokens)
    /\ UNCHANGED <<pc, ctxDone, callVars, hVars, otherVars, iteration, plan, allResults, execVars,
                   eventChan, tokenClosed, lmFail, content, retHistory, retErr, trace>>

LMReturn_closesOnlyOnSuccess ==
    /\ pc = "stream"
    /\ lmTokens = <<>>
    /\ ~tokenClosed
    /\ ~lmFail
    /\ tokenClosed' = TRUE
    /\ UNCHANGED <<pc, ctxDone, callVars, hVars, otherVars, iteration, plan, allResults, execVars,
                   eventChan, tokenChan, lmTokens, lmFail, response, content,
                   retHistory, retErr, trace>>

\* LM helper: ChatMessages closes the token channel and returns
LMReturn ==
    /\ pc = "stream"
    /\ lmTokens = <<>>
    /\ ~tokenClosed
    /\ tokenClosed' = TRUE
    /\ UNCHANGED <<pc, ctxDone, callVars, hVars, otherVars, iteration, plan, allResults, execVars,
                   eventChan, tokenChan, lmTokens, lmFail, response, content,
                   retHistory, retErr, trace>>

SynthForward_dropsWhenFull ==
    /\ pc = "stream"
    /\ tokenChan # <<>>
    /\ LET e == Entry("Text", "assistant", Head(tokenChan), FALSE, FALSE, 0)
       IN  IF Len(eventChan) < ChanCap
           THEN Send(e) /\ trace' = Append(trace, e)
           ELSE UNCHANGED <<eventChan, trace>>
    /\ content' = content \o Head(tokenChan)
    /\ tokenChan' = Tail(tokenChan)
    /\ UNCHANGED <<pc, ctxDone, callVars, hVars, otherVars, iteration, plan, allResults, execVars,
                   tokenClosed, lmTokens, lmFail, response, retHistory, retErr>>

\* synthesize: one round of the loop over the token channel
SynthForward ==
    /\ pc = "stream"
    /\ tokenChan # <<>>
    /\ LET e == Entry("Text", "assistant", Head(tokenChan), FALSE, FALSE, 0)
       IN  Send(e) /\ trace' = Append(trace, e)
    /\ content' = content \o Head(tokenChan)
    /\ tokenChan' = Tail(tokenChan)
    /\ UNCHANGED <<pc, ctxDone, callVars, hVars, otherVars, iteration, plan, allResults, execVars,
                   tokenClosed, lmTokens, lmFail, response, retHistory, retErr>>

SynthReturn_ignoresError ==
    /\ pc = "stream"
    /\ tokenChan = <<>>
    /\ tokenClosed
    /\ Return(BuildHistory(opts, userMessage, response), "", trace)
    /\ UNCHANGED <<ctxDone, callVars, hVars, otherVars, iteration, plan, allResults, execVars,
                   eventChan, synthVars>>

\* synthesize returns once the token channel is closed and drained; Run
\* builds the history
SynthReturn ==
    /\ pc = "stream"
    /\ tokenChan = <<>>
    /\ tokenClosed
    /\ IF lmFail
       THEN Return(NoHistory, "synthesis failed", trace)
       ELSE Return(BuildHistory(opts, userMessage, response), "", trace)
    /\ UNCHANGED <<ctxDone, callVars, hVars, otherVars, iteration, plan, allResults, execVars,
                   eventChan, synthVars>>

----------------------------------------------------------------------------
(* The caller *)

\* the caller cancels the request context
Cancel ==
    /\ pc # "done"
    /\ ~ctxDone
    /\ ctxDone' = TRUE
    /\ UNCHANGED <<pc, callVars, hVars, otherVars, iteration, plan, allResults, execVars,
                   eventChan, synthVars, retHistory, retErr, trace>>

\* the caller receives one event from the event channel
Receive ==
    /\ eventChan # <<>>
    /\ eventChan' = Tail(eventChan)
    /\ UNCHANGED <<pc, ctxDone, callVars, hVars, otherVars, iteration, plan, allResults, execVars,
                   synthVars, retHistory, retErr, trace>>

Next ==
    \/ RunStart
    \/ IterCheck
    \/ PlanCall
    \/ EmitPlanGenerated
    \/ Dispatch
    \/ StepCheck
    \/ EmitStepStarted
    \/ EmitToolCall
    \/ ExecuteTool
    \/ ToolReturn
    \/ EmitToolResult
    \/ SynthStart
    \/ LMStream
    \/ LMReturn
    \/ SynthForward
    \/ SynthReturn
    \/ Cancel
    \/ Receive

Spec == Init /\ [][Next]_vars

\* the steps of the goroutine of Run (LM planning calls and tool calls are
\* synchronous calls of it and return)
RunnerStep ==
    \/ RunStart
    \/ IterCheck
    \/ LivePlanCall
    \/ EmitPlanGenerated
    \/ Dispatch
    \/ StepCheck
    \/ EmitStepStarted
    \/ EmitToolCall
    \/ ExecuteTool
    \/ ToolReturn
    \/ EmitToolResult
    \/ SynthStart
    \/ SynthForward
    \/ SynthReturn

\* the steps of the LM helper goroutine of synthesize
LMStep == LMStream \/ LMReturn

\* Run under a fair scheduler: the goroutine of Run, the LM helper goroutine
\* and the consumer of the event channel each take a step they can keep
\* taking; cancellation may or may not happen
FairNext ==
    \/ RunnerStep
    \/ LMStep
    \/ Cancel
    \/ Receive

FairSpec ==
    /\ Init
    /\ [][FairNext]_vars
    /\ WF_vars(RunnerStep)
    /\ WF_vars(LMStep)
    /\ WF_vars(Receive)

----------------------------------------------------------------------------
(* The Session Handler: processChat serving one request, with Pipeline.Run  *)
(* as its runner goroutine, and HandleChat's handling of its error          *)

\* everything of the runner but the event channel
runVars == <<pc, ctxDone, callVars, iteration, plan, allResults, execVars,
             synthVars, retHistory, retErr, trace>>

\* a frame of the response stream
Frame(kind, id, name, out, ok) == [kind |-> kind, id |-> id, name |-> name, out |-> out, ok |-> ok]

NoFrame == Frame("none", "", "", "", FALSE)

\* processChat: the frame an event is turned into (for Text id is the role
\* and out the content); PlanGenerated and StepStarted events are not sent
FrameOf(e) ==
    IF e.kind = "Text"
    THEN Frame("Text", IF e.id = "system" THEN "system" ELSE "assistant", "", e.name, FALSE)
    ELSE IF e.kind = "ToolCall" THEN Frame("ToolCall", e.id, e.name, "", FALSE)
    ELSE IF e.kind = "ToolResult" THEN Frame("ToolResult", e.id, e.name, e.out, e.ok)
    ELSE NoFrame

HistoryAfter_alwaysReplaced(old, history, err) == history

\* processChat: h.history after the select on errChan and resultChan
HistoryAfter(old, history, err) == IF err # "" THEN old ELSE history

\* processChat has been called: h.history is the history of the options,
\* the context is context.Background() and the runner goroutine is started
HandlerInit ==
    /\ pc = "start"
    /\ ctxDone = FALSE
    /\ \E in \in RunInputs : opts = in.History /\ userMessage = in.userMessage
    /\ iteration = 0
    /\ plan = NoPlan
    /\ allResults = <<>>
    /\ ordered = <<>>
    /\ stepIdx = 1
    /\ results = <<>>
    /\ toolErr = FALSE
    /\ eventChan = <<>>
    /\ tokenChan = <<>>
    /\ tokenClosed = FALSE
    /\ lmTokens = <<>>
    /\ lmFail = FALSE
    /\ response = ""
    /\ content = ""
    /\ retHistory = NoHistory
    /\ retErr = ""
    /\ trace = <<>>
    /\ hpc = "streaming"
    /\ hHistory = opts
    /\ hErr = ""
    /\ frames = <<>>
    /\ connBroken = FALSE
    /\ OthersIdle

\* processChat: one round of the loop over the event channel; a failed write
\* makes processChat return the error
StreamEvent ==
    /\ hpc = "streaming"
    /\ eventChan # <<>>
    /\ eventChan' = Tail(eventChan)
    /\ LET resp == FrameOf(Head(eventChan))
       IN  IF resp.kind = "none"
           THEN UNCHANGED <<hpc, hErr, frames>>
           ELSE IF connBroken
                THEN /\ hpc' = "sendError"
                     /\ hErr' = "write failed"
                     /\ UNCHANGED frames
                ELSE /\ frames' = Append(frames, resp)
                     /\ UNCHANGED <<hpc, hErr>>
    /\ UNCHANGED <<runVars, otherVars, hHistory, connBroken>>

\* processChat: the event channel is closed and drained; the select on
\* errChan and resultChan
AwaitRunner ==
    /\ hpc = "streaming"
    /\ eventChan = <<>>
    /\ pc = "done"
    /\ hErr' = retErr
    /\ hHistory' = HistoryAfter(hHistory, retHistory, retErr)
    /\ hpc' = IF retErr # "" THEN "sendError" ELSE "sendDone"
    /\ UNCHANGED <<runVars, otherVars, eventChan, frames, connBroken>>

\* processChat: the Done frame
SendDone ==
    /\ hpc = "sendDone"
    /\ IF connBroken
       THEN /\ hpc' = "sendError"
            /\ hErr' = "write failed"
            /\ UNCHANGED frames
       ELSE /\ frames' = Append(frames, Frame("Done", "", "", "", TRUE))
            /\ hpc' = "idle"
            /\ UNCHANGED hErr
    /\ UNCHANGED <<runVars, otherVars, eventChan, hHistory, connBroken>>

SendError_silent ==
    /\ hpc = "sendError"
    /\ hpc' = "idle"
    /\ UNCHANGED <<runVars, otherVars, eventChan, hHistory, hErr, frames, connBroken>>

SendError_thenDone ==
    /\ hpc = "sendError"
    /\ frames' = IF connBroken THEN frames
                 ELSE Append(frames, Frame("Error", "", "", hErr, FALSE))
    /\ hpc' = IF connBroken THEN "idle" ELSE "sendDone"
    /\ UNCHANGED <<runVars, otherVars, eventChan, hHistory, hErr, connBroken>>

\* HandleChat: processChat returned an error; sendError, then the next
\* request is awaited
SendError ==
    /\ hpc = "sendError"
    /\ frames' = IF connBroken THEN frames
                 ELSE Append(frames, Frame("Error", "", "", hErr, FALSE))
    /\ hpc' = "idle"
    /\ UNCHANGED <<runVars, otherVars, eventChan, hHistory, hErr, connBroken>>

\* the client goes away: from now on writes to the connection fail
Disconnect ==
    /\ hpc \in {"streaming", "sendDone", "sendError"}
    /\ ~connBroken
    /\ connBroken' = TRUE
    /\ UNCHANGED <<runVars, otherVars, eventChan, hpc, hHistory, hErr, frames>>

HandlerNext ==
    \/ RunStart
    \/ IterCheck
    \/ PlanCall
    \/ EmitPlanGenerated
    \/ Dispatch
    \/ StepCheck
    \/ EmitStepStarted
    \/ EmitToolCall
    \/ ExecuteTool
    \/ ToolReturn
    \/ EmitToolResult
    \/ SynthStart
    \/ LMStream
    \/ LMReturn
    \/ SynthForward
    \/ SynthReturn
    \/ StreamEvent
    \/ AwaitRunner
    \/ SendDone
    \/ SendError
    \/ Disconnect

HandlerSpec == HandlerInit /\ [][HandlerNext]_vars

\* the steps of the goroutine of HandleChat and processChat
HandlerStep == StreamEvent \/ AwaitRunner \/ SendDone \/ SendError

\* one request served under a fair scheduler: the goroutine of the handler,
\* the runner goroutine and the LM helper goroutine each take a step they
\* can keep taking; the client may or may not go away
FairHandlerNext ==
    \/ RunnerStep
    \/ LMStep
    \/ HandlerStep
    \/ Disconnect

FairHandlerSpec ==
    /\ HandlerInit
    /\ [][FairHandlerNext]_vars
    /\ WF_vars(HandlerStep)
    /\ WF_vars(RunnerStep)
    /\ WF_vars(LMStep)

----------------------------------------------------------------------------
(* Agent.Run: the tool-calling runner *)
(* The handler drives either runner through the same interface: the event  *)
(* channel, the returned history and the returned error.  Agent.Run uses   *)
(* pc, iteration, the channels, the LM helper's variables, toolErr, trace  *)
(* and the return values as Pipeline.Run does.                             *)

maxToolIterations == 10

\* the variables of Pipeline.Run that Agent.Run has no use for
pipelineOnlyVars == <<plan, allResults, ordered, stepIdx, results, content>>

\* the variables of the components other than the agent and the handler
agentRest == <<sessVars, shellVars, discVars, extraVars>>

\* an assistant message that carries the tool calls of the result
ToolCallMsg(text, calls) == [Role |-> "assistant", Content |-> text, ToolCalls |-> calls]

\* what the LM does on a round: the tokens it streams, whether the call then
\* returns an error, and the tool calls of the result
ToolCallLists == {<<>>, <<"clock">>, <<"failing_tool", "clock">>, <<"nonexistent_tool">>}

FollowUpRound == [tokens |-> <<"Checking. ">>, fail |-> FALSE, calls |-> <<"clock">>]

AgentRounds(iter) ==
    IF iter = 0
    THEN {[tokens |-> s.tokens, fail |-> s.fail, calls |-> c] :
              s \in SynthScripts, c \in ToolCallLists}
    ELSE {[tokens |-> s.tokens, fail |-> s.fail, calls |-> <<>>] : s \in SynthScripts}
             \cup {FollowUpRound}

AgentInit ==
    /\ pc = "agentStart"
    /\ ctxDone = FALSE
    /\ \E in \in RunInputs : opts = in.History /\ userMessage = in.userMessage
    /\ iteration = 0
    /\ plan = NoPlan
    /\ allResults = <<>>
    /\ ordered = <<>>
    /\ stepIdx = 1
    /\ results = <<>>
    /\ toolErr = FALSE
    /\ eventChan = <<>>
    /\ tokenChan = <<>>
    /\ tokenClosed = FALSE
    /\ lmTokens = <<>>
    /\ lmFail = FALSE
    /\ response = ""
    /\ content = ""
    /\ retHistory = NoHistory
    /\ retErr = ""
    /\ trace = <<>>
    /\ hpc = "streaming"
    /\ hHistory = opts
    /\ hErr = ""
    /\ frames = <<>>
    /\ connBroken = FALSE
    /\ OthersIdle

\* Run: the messages are the system prompt, the history and the user message
AgentStart ==
    /\ pc = "agentStart"
    /\ messages' = <<Msg("system", "prompt")>> \o opts \o <<Msg("user", userMessage)>>
    /\ pc' = "agentLoop"
    /\ UNCHANGED <<ctxDone, callVars, hVars, agentRest, pipelineOnlyVars, iteration, toolErr,
                   eventChan, tokenChan, tokenClosed, lmTokens, lmFail, response,
                   retHistory, retErr, trace, bufferedTokens, toolCalls, lmCalls>>

\* Run: the loop condition, the context check at the top of a round, and the
\* start of the LM helper goroutine
AgentRound ==
    /\ pc = "agentLoop"
    /\ IF iteration >= maxToolIterations
       THEN /\ Return(NoHistory, "max tool iterations exceeded", trace)
            /\ UNCHANGED <<tokenChan, tokenClosed, lmTokens, lmFail, response,
                           bufferedTokens, lmCalls>>
       ELSE IF CtxErr(ctxDone) # ""
       THEN /\ Return(NoHistory, CtxErr(ctxDone), trace)
            /\ UNCHANGED <<tokenChan, tokenClosed, lmTokens, lmFail, response,
                           bufferedTokens, lmCalls>>
       ELSE \E r \in AgentRounds(iteration) :
                /\ lmTokens' = r.tokens
                /\ lmFail' = r.fail
                /\ lmCalls' = r.calls
                /\ tokenChan' = <<>>
                /\ tokenClosed' = FALSE
                /\ response' = ""
                /\ bufferedTokens' = <<>>
                /\ pc' = "agentStream"
                /\ trace' = Append(trace, [Mark("ChatCall") EXCEPT !.n = Len(r.tokens),
                                                                  !.flag = Len(r.calls) > 0])
                /\ UNCHANGED <<retHistory, retErr>>
    /\ UNCHANGED <<ctxDone, callVars, hVars, agentRest, pipelineOnlyVars, iteration, toolErr,
                   eventChan, messages, toolCalls>>

\* LM helper: ChatWithTools streams a token; the content of its result is
\* the concatenation of the streamed tokens
ChatWithToolsStream ==
    /\ pc = "agentStream"
    /\ lmTokens # <<>>
    /\ Len(tokenChan) < TokenChanCap
    /\ tokenChan' = Append(tokenChan, Head(lmTokens))
    /\ response' = response \o Head(lmTokens)
    /\ lmTokens' = Tail(lmTokens)
    /\ UNCHANGED <<pc, ctxDone, callVars, hVars, agentRest, pipelineOnlyVars, iteration, toolErr,
                   eventChan, tokenClosed, lmFail, retHistory, retErr, trace, agentVars>>

\* LM helper: ChatWithTools closes the token channel and returns
ChatWithToolsReturn ==
    /\ pc = "agentStream"
    /\ lmTokens = <<>>
    /\ ~tokenClosed
    /\ tokenClosed' = TRUE
    /\ UNCHANGED <<pc, ctxDone, callVars, hVars, agentRest, pipelineOnlyVars, iteration, toolErr,
                   eventChan, tokenChan, lmTokens, lmFail, response, retHistory, retErr,
                   trace, agentVars>>

BufferToken_streamsAtOnce ==
    /\ pc = "agentStream"
    /\ tokenChan # <<>>
    /\ LET e == Entry("Text", "assistant", Head(tokenChan), FALSE, FALSE, 0)
       IN  /\ Send(e)
           /\ trace' = Append(trace, e)
    /\ tokenChan' = Tail(tokenChan)
    /\ UNCHANGED <<pc, ctxDone, callVars, hVars, agentRest, pipelineOnlyVars, iteration, toolErr,
                   tokenClosed, lmTokens, lmFail, response, retHistory, retErr, agentVars>>

\* Run: a token received from the token channel is buffered
BufferToken ==
    /\ pc = "agentStream"
    /\ tokenChan # <<>>
    /\ bufferedTokens' = Append(bufferedTokens, Head(tokenChan))
    /\ tokenChan' = Tail(tokenChan)
    /\ UNCHANGED <<pc, ctxDone, callVars, hVars, agentRest, pipelineOnlyVars, iteration, toolErr,
                   eventChan, tokenClosed, lmTokens, lmFail, response, retHistory, retErr,
                   trace, messages, toolCalls, lmCalls>>

\* Run: the token channel is closed and drained; the select on errChan and
\* resultChan.  A result with tool calls appends the assistant message that
\* carries them and drops the buffered text
AgentResult ==
    /\ pc = "agentStream"
    /\ tokenChan = <<>>
    /\ tokenClosed
    /\ IF lmFail
       THEN /\ Return(NoHistory, "lm error", trace)
            /\ UNCHANGED <<messages, toolCalls, bufferedTokens>>
       ELSE IF Len(lmCalls) = 0
       THEN /\ pc' = "agentFlush"
            /\ UNCHANGED <<messages, toolCalls, bufferedTokens, retHistory, retErr, trace>>
       ELSE /\ messages' = Append(messages, ToolCallMsg(response, lmCalls))
            /\ toolCalls' = lmCalls
            /\ bufferedTokens' = <<>>
            /\ pc' = "agentToolCall"
            /\ UNCHANGED <<retHistory, retErr, trace>>
    /\ UNCHANGED <<ctxDone, callVars, hVars, agentRest, pipelineOnlyVars, iteration, toolErr,
                   eventChan, tokenChan, tokenClosed, lmTokens, lmFail, response, lmCalls>>

\* Run: the final answer; the buffered tokens are sent as Text events, then
\* the assistant message is appended and the messages after the system
\* prompt are returned
AgentFlush ==
    /\ pc = "agentFlush"
    /\ IF bufferedTokens # <<>>
       THEN /\ LET e == Entry("Text", "assistant", Head(bufferedTokens), FALSE, FALSE, 0)
               IN  /\ Send(e)
                   /\ trace' = Append(trace, e)
            /\ bufferedTokens' = Tail(bufferedTokens)
            /\ UNCHANGED <<pc, messages, retHistory, retErr>>
       ELSE /\ messages' = Append(messages, Msg("assistant", response))
            /\ Return(Tail(messages'), "", trace)
            /\ UNCHANGED <<eventChan, bufferedTokens>>
    /\ UNCHANGED <<ctxDone, callVars, hVars, agentRest, pipelineOnlyVars, iteration, toolErr,
                   tokenChan, tokenClosed, lmTokens, lmFail, response, toolCalls, lmCalls>>

\* Run: the loop over the tool calls of the result; the ToolCall event
AgentToolCall ==
    /\ pc = "agentToolCall"
    /\ IF toolCalls = <<>>
       THEN /\ iteration' = iteration + 1
            /\ pc' = "agentLoop"
            /\ UNCHANGED <<eventChan, trace>>
       ELSE /\ LET e == Entry("ToolCall", Head(toolCalls), Head(toolCalls), FALSE, FALSE, 0)
               IN  /\ Send(e)
                   /\ trace' = Append(trace, e)
            /\ pc' = "agentExecute"
            /\ UNCHANGED iteration
    /\ UNCHANGED <<ctxDone, callVars, hVars, agentRest, pipelineOnlyVars, toolErr,
                   tokenChan, tokenClosed, lmTokens, lmFail, response, retHistory, retErr,
                   agentVars>>

\* Run: registry.Execute for the tool call
AgentExecute ==
    /\ pc = "agentExecute"
    /\ toolErr' = RegistryExecuteFails(Head(toolCalls))
    /\ trace' = Append(trace, Entry("Invoke", Head(toolCalls), Head(toolCalls), FALSE, FALSE, 0))
    /\ pc' = "agentToolResult"
    /\ UNCHANGED <<ctxDone, callVars, hVars, agentRest, pipelineOnlyVars, iteration,
                   eventChan, tokenChan, tokenClosed, lmTokens, lmFail, response,
                   retHistory, retErr, agentVars>>

\* the output of a tool call as Run reports and records it
AgentToolOutput(tool, failed) ==
    IF failed THEN "Error: " \o ToolError(tool) ELSE ToolOutput(tool)

\* Run: the ToolResult event, and the tool message appended to the messages
AgentToolResult ==
    /\ pc = "agentToolResult"
    /\ LET tool == Head(toolCalls)
           e    == [Entry("ToolResult", tool, tool, ~toolErr, FALSE, 0)
                       EXCEPT !.out = AgentToolOutput(tool, toolErr)]
       IN  /\ Send(e)
           /\ trace' = Append(trace, e)
           /\ messages' = Append(messages, Msg("tool", AgentToolOutput(tool, toolErr)))
    /\ toolCalls' = Tail(toolCalls)
    /\ pc' = "agentToolCall"
    /\ UNCHANGED <<ctxDone, callVars, hVars, agentRest, pipelineOnlyVars, iteration, toolErr,
                   tokenChan, tokenClosed, lmTokens, lmFail, response, retHistory, retErr,
                   bufferedTokens, lmCalls>>

AgentNext ==
    \/ AgentStart
    \/ AgentRound
    \/ ChatWithToolsStream
    \/ ChatWithToolsReturn
    \/ BufferToken
    \/ AgentResult
    \/ AgentFlush
    \/ AgentToolCall
    \/ AgentExecute
    \/ AgentToolResult
    \/ StreamEvent
    \/ AwaitRunner
    \/ SendDone
    \/ SendError
    \/ Disconnect

AgentSpec == AgentInit /\ [][AgentNext]_vars

----------------------------------------------------------------------------
(* The Server: chat connections *)
(* NewServer makes one Handler; handleWSChat runs that Handler's HandleChat  *)
(* for every connection it upgrades, each in the goroutine of its HTTP       *)
(* request.  The runner is abstracted to what it returns: on success the     *)
(* history of the options followed by the user message and the answer.       *)

\* neither runner nor processChat is modelled step by step here
RunnerIdle ==
    /\ pc = "off"
    /\ ctxDone = FALSE
    /\ opts = <<>>
    /\ userMessage = ""
    /\ iteration = 0
    /\ plan = NoPlan
    /\ allResults = <<>>
    /\ ordered = <<>>
    /\ stepIdx = 1
    /\ results = <<>>
    /\ toolErr = FALSE
    /\ eventChan = <<>>
    /\ tokenChan = <<>>
    /\ tokenClosed = FALSE
    /\ lmTokens = <<>>
    /\ lmFail = FALSE
    /\ response = ""
    /\ content = ""
    /\ retHistory = NoHistory
    /\ retErr = ""
    /\ trace = <<>>
    /\ hpc = "off"
    /\ hErr = ""
    /\ frames = <<>>
    /\ connBroken = FALSE

idleVars == <<runVars, eventChan, hpc, hErr, frames, connBroken, extraVars>>

\* NewServer: the Handler is made, with no history
SessionInit ==
    /\ RunnerIdle
    /\ hHistory = <<>>
    /\ OthersIdle

\* handleWSChat: the connection is upgraded and HandleChat(conn) is called on
\* the server's Handler
Connect(c) ==
    /\ connState[c] = "new"
    /\ connState' = [connState EXCEPT ![c] = "idle"]
    /\ UNCHANGED <<idleVars, hHistory, agentVars, shellVars, discVars,
                   reqHistory, reqCount, sessLog>>

\* HandleChat: a request is read; processChat builds the options from
\* h.history and starts the runner
Request(c) ==
    /\ connState[c] = "idle"
    /\ reqCount[c] < MaxRequests
    /\ connState' = [connState EXCEPT ![c] = "busy"]
    /\ reqHistory' = [reqHistory EXCEPT ![c] = hHistory]
    /\ reqCount' = [reqCount EXCEPT ![c] = @ + 1]
    /\ sessLog' = Append(sessLog, [conn |-> c, History |-> hHistory])
    /\ UNCHANGED <<idleVars, hHistory, agentVars, shellVars, discVars>>

\* processChat: the runner has returned; the select on errChan and resultChan
Complete(c) ==
    /\ connState[c] = "busy"
    /\ \E err \in {"", "lm error"} :
           hHistory' = HistoryAfter(hHistory, BuildHistory(reqHistory[c], c, "answer"), err)
    /\ connState' = [connState EXCEPT ![c] = "idle"]
    /\ UNCHANGED <<idleVars, agentVars, shellVars, discVars, reqHistory, reqCount, sessLog>>

\* HandleChat: ReadMessage fails because the client is gone; HandleChat
\* returns and the deferred conn.Close() runs
Hangup(c) ==
    /\ connState[c] = "idle"
    /\ connState' = [connState EXCEPT ![c] = "closed"]
    /\ UNCHANGED <<idleVars, hHistory, agentVars, shellVars, discVars,
                   reqHistory, reqCount, sessLog>>

SessionNext ==
    \E c \in Conns :
        \/ Connect(c)
        \/ Request(c)
        \/ Complete(c)
        \/ Hangup(c)

SessionSpec == SessionInit /\ [][SessionNext]_vars

----------------------------------------------------------------------------
(* ShellTool.Execute *)
(* A command is a sequence of atoms: a word, a blank, or one of the          *)
(* characters the banned sequences are made of.  The command string is the   *)
(* concatenation of its atoms, so strings.Contains is containment of a       *)
(* contiguous run of atoms and strings.Fields splits at the blanks.          *)

Words == {"date", "rm", "tfl", "wx"}

Blank == " "

\* the backquote character, which a string of this language cannot hold
Backquote == "BACKQUOTE"

MetaChars == {"&", "|", ";", Backquote, "$", "(", "{", ">", "<"}

Atoms == Words \cup {Blank} \cup MetaChars

Commands == SeqsUpTo(Atoms, MaxCmdLen)

\* validateCommand: dangerousPatterns, in the order they are tried
dangerousPatterns ==
    << <<"&", "&">>, <<"|", "|">>, <<";">>, <<"|">>, <<Backquote>>, <<"$", "(">>, <<"$", "{">>,
       <<">">>, <<"<">> >>

\* strings.Contains(command, pattern)
Contains(cmd, pat) ==
    \E i \in 1..(Len(cmd) - Len(pat) + 1) : SubSeq(cmd, i, i + Len(pat) - 1) = pat

\* the command as a string
RECURSIVE CommandText(_)
CommandText(cmd) == IF cmd = <<>> THEN "" ELSE Head(cmd) \o CommandText(Tail(cmd))

\* strings.Fields(command): the maximal runs of non-blank atoms
RECURSIVE FieldsFrom(_, _)
FieldsFrom(cmd, cur) ==
    IF cmd = <<>> THEN (IF cur = "" THEN <<>> ELSE <<cur>>)
    ELSE IF Head(cmd) = Blank
         THEN (IF cur = "" THEN <<>> ELSE <<cur>>) \o FieldsFrom(Tail(cmd), "")
         ELSE FieldsFrom(Tail(cmd), cur \o Head(cmd))

Fields(cmd) == FieldsFrom(cmd, "")

\* settings.Tools.Shell.Allowlist
Allowlist == {"date"}

\* the declared external tools
ExternalTools ==
    { [Name |-> "tfl", Type |-> "shell", Command |-> "tfl"],
      [Name |-> "wx", Type |-> "http", Command |-> "wx"] }

wellKnownCommands == {"date", "rm"}

\* Settings.IsCommandAllowed
IsCommandAllowed(cmd, enabled) == enabled /\ cmd \in Allowlist

IsExternalShellTool(cmd) ==
    \E ext \in ExternalTools : ext.Type = "shell" /\ ext.Command = cmd

FirstPattern(cmd) ==
    dangerousPatterns[CHOOSE i \in 1..Len(dangerousPatterns) :
                          /\ Contains(cmd, dangerousPatterns[i])
                          /\ \A j \in 1..(i - 1) : ~Contains(cmd, dangerousPatterns[j])]

HasDangerousPattern(cmd) ==
    \E i \in 1..Len(dangerousPatterns) : Contains(cmd, dangerousPatterns[i])

validateCommand_singleCharsOnly(cmd, enabled) ==
    IF \E i \in 1..Len(cmd) : cmd[i] \in {";", "|", Backquote, ">", "<"}
    THEN "command contains disallowed pattern: " \o CommandText(FirstPattern(cmd))
    ELSE IF Fields(cmd) = <<>> THEN "empty command"
    ELSE IF IsCommandAllowed(Fields(cmd)[1], enabled) THEN ""
    ELSE IF IsExternalShellTool(Fields(cmd)[1]) THEN ""
    ELSE "command not in allowlist: " \o Fields(cmd)[1]

validateCommand_anyExternalTool(cmd, enabled) ==
    IF HasDangerousPattern(cmd)
    THEN "command contains disallowed pattern: " \o CommandText(FirstPattern(cmd))
    ELSE IF Fields(cmd) = <<>> THEN "empty command"
    ELSE IF IsCommandAllowed(Fields(cmd)[1], enabled) THEN ""
    ELSE IF \E ext \in ExternalTools : ext.Command = Fields(cmd)[1] THEN ""
    ELSE "command not in allowlist: " \o Fields(cmd)[1]

\* validateCommand: the error it returns, "" for nil
validateCommand(cmd, enabled) ==
    IF HasDangerousPattern(cmd)
    THEN "command contains disallowed pattern: " \o CommandText(FirstPattern(cmd))
    ELSE IF Fields(cmd) = <<>> THEN "empty command"
    ELSE IF IsCommandAllowed(Fields(cmd)[1], enabled) THEN ""
    ELSE IF IsExternalShellTool(Fields(cmd)[1]) THEN ""
    ELSE "command not in allowlist: " \o Fields(cmd)[1]

\* what a spawned command does: how it ends and what it wrote
Outcomes ==
    [exit : {"ok", "failed", "timeout"}, stdout : {"", "out"}, stderr : {"", "err"}]

\* Execute: stdout, then stderr if there is any, a newline between the two
\* when stdout is not empty
CombineOutput(stdout, stderr) ==
    IF stderr # ""
    THEN (IF stdout # "" THEN stdout \o "\n" ELSE "") \o stderr
    ELSE stdout

ShellOutput_dropsOnFailure(o, info) ==
    IF o.exit # "ok" THEN ""
    ELSE IF info # "" THEN info \o "\n---\nCommand output:\n" \o CombineOutput(o.stdout, o.stderr)
    ELSE CombineOutput(o.stdout, o.stderr)

\* Execute: the output returned once the command has run
ShellOutput(o, info) ==
    IF o.exit = "timeout" THEN CombineOutput(o.stdout, o.stderr)
    ELSE IF info # "" THEN info \o "\n---\nCommand output:\n" \o CombineOutput(o.stdout, o.stderr)
    ELSE CombineOutput(o.stdout, o.stderr)

\* Execute: the error returned once the command has run
ShellError(o) ==
    IF o.exit = "timeout" THEN "command timed out after 30s"
    ELSE IF o.exit = "failed" THEN "command failed: exit status 1"
    ELSE ""

\* the arguments Execute is called with
StringArg(cmd) == [kind |-> "string", cmd |-> cmd]

FollowUpArgs ==
    {StringArg(<<"tfl">>), StringArg(<<"tfl", Blank, "date">>), StringArg(<<"date">>),
     StringArg(<<"rm">>)}

ShellArgs(calls) ==
    IF calls = 0
    THEN {NoArg, [kind |-> "notString", cmd |-> <<>>]} \cup {StringArg(c) : c \in Commands}
    ELSE FollowUpArgs

shellRest == <<idleVars, hHistory, agentVars, sessVars, discVars>>

\* NewShellToolWithExternalTools: nothing is cached
ShellInit ==
    /\ RunnerIdle
    /\ ExtraIdle
    /\ hHistory = <<>>
    /\ AgentIdle
    /\ SessIdle
    /\ DiscIdle
    /\ shPc = "idle"
    /\ shArg = NoArg
    /\ shEnabled \in BOOLEAN
    /\ helpCache = {}
    /\ spawned = <<>>
    /\ discoveryInfo = ""
    /\ shOutcome = NoOutcome
    /\ shOutput = ""
    /\ shErr = ""
    /\ shCalls = 0

\* Execute is called
ShellCall ==
    /\ shPc = "idle"
    /\ shCalls < MaxCalls
    /\ \E a \in ShellArgs(shCalls) : shArg' = a
    /\ shCalls' = shCalls + 1
    /\ shPc' = "validate"
    /\ spawned' = <<>>
    /\ discoveryInfo' = ""
    /\ shOutcome' = NoOutcome
    /\ shOutput' = ""
    /\ shErr' = ""
    /\ UNCHANGED <<shellRest, shEnabled, helpCache>>

\* Execute: the checks of the argument, then validateCommand
ShellValidate ==
    /\ shPc = "validate"
    /\ LET err == IF shArg.kind = "missing" THEN "missing required parameter: command"
                  ELSE IF shArg.kind = "notString" THEN "command must be a string"
                  ELSE validateCommand(shArg.cmd, shEnabled)
       IN  /\ shErr' = err
           /\ shPc' = IF err # "" THEN "idle" ELSE "discover"
    /\ UNCHANGED <<shellRest, shArg, shEnabled, helpCache, spawned, discoveryInfo,
                   shOutcome, shOutput, shCalls>>

\* runToolDiscoveryIfNeeded: a base command that is neither well known nor
\* cached is probed with its help options, and the result is cached
ShellDiscover ==
    /\ shPc = "discover"
    /\ LET baseCmd == Fields(shArg.cmd)[1]
       IN  IF baseCmd \in wellKnownCommands \/ baseCmd \in helpCache
           THEN UNCHANGED <<helpCache, spawned, discoveryInfo>>
           ELSE /\ spawned' = Append(spawned, [kind |-> "probe", cmd |-> <<baseCmd, Blank, "--help">>])
                /\ discoveryInfo' \in {"", "usage"}
                /\ helpCache' = helpCache \cup {baseCmd}
    /\ shPc' = "spawn"
    /\ UNCHANGED <<shellRest, shArg, shEnabled, shOutcome, shOutput, shErr, shCalls>>

\* Execute: cmd.Run() starts sh -c command
ShellSpawn ==
    /\ shPc = "spawn"
    /\ spawned' = Append(spawned, [kind |-> "command", cmd |-> shArg.cmd])
    /\ shPc' = "running"
    /\ UNCHANGED <<shellRest, shArg, shEnabled, helpCache, discoveryInfo, shOutcome,
                   shOutput, shErr, shCalls>>

\* Execute: the command has ended or was killed at the deadline; the output
\* is combined and returned
ShellExit ==
    /\ shPc = "running"
    /\ \E o \in Outcomes :
           /\ shOutcome' = o
           /\ shOutput' = ShellOutput(o, discoveryInfo)
           /\ shErr' = ShellError(o)
    /\ shPc' = "idle"
    /\ UNCHANGED <<shellRest, shArg, shEnabled, helpCache, spawned, discoveryInfo, shCalls>>

ShellNext ==
    \/ ShellCall
    \/ ShellValidate
    \/ ShellDiscover
    \/ ShellSpawn
    \/ ShellExit

ShellSpec == ShellInit /\ [][ShellNext]_vars

----------------------------------------------------------------------------
(* GetCommandSchemaTool.Execute *)
(* The command argument is a sequence of atoms as for the shell tool.  The   *)
(* response of the LM is a sequence of pieces: an opening brace, a closing   *)
(* brace, the text of well-formed members, or other text.                    *)

DiscCommands == SeqsUpTo({"date", "git", "rm", "tfl", Blank}, MaxCmdLen)

\* isCommandAllowed: the commands that may always be discovered
safeCommands ==
    {"git", "docker", "kubectl", "npm", "yarn", "pnpm", "cargo", "go", "python", "pip",
     "node", "ruby", "make", "cmake", "gradle", "mvn"}

\* isCommandAllowed: the whole command string is looked up
isCommandAllowed(command, enabled) ==
    \/ IsCommandAllowed(CommandText(command), enabled)
    \/ CommandText(command) \in safeCommands

ResponsePieces == {"{", "}", "members", "text"}

Responses == SeqsUpTo(ResponsePieces, MaxRespLen)

\* json.Unmarshal into a map succeeds: the text is one JSON object
RECURSIVE IsJSONObject(_)
IsJSONObject(r) ==
    /\ Len(r) >= 2
    /\ r[1] = "{"
    /\ r[Len(r)] = "}"
    /\ LET inner == SubSeq(r, 2, Len(r) - 1)
       IN  \/ inner = <<>>
           \/ inner = <<"members">>
           \/ (Len(inner) >= 3 /\ inner[1] = "members" /\ IsJSONObject(Tail(inner)))

\* strings.Index and strings.LastIndex, 0 when the piece does not occur
Index(r, x) ==
    IF \E i \in 1..Len(r) : r[i] = x
    THEN CHOOSE i \in 1..Len(r) : r[i] = x /\ \A j \in 1..(i - 1) : r[j] # x
    ELSE 0

LastIndex(r, x) ==
    IF \E i \in 1..Len(r) : r[i] = x
    THEN CHOOSE i \in 1..Len(r) : r[i] = x /\ \A j \in (i + 1)..Len(r) : r[j] # x
    ELSE 0

\* what the schema LM does: it is absent, its call fails, or it answers
LLMs ==
    {NoLLM, [present |-> TRUE, fail |-> TRUE, response |-> <<>>]}
        \cup {[present |-> TRUE, fail |-> FALSE, response |-> r] : r \in Responses}

\* generateSchema: the error it returns, "" for nil
generateSchema(llm) ==
    IF ~llm.present THEN "no LLM available for schema generation"
    ELSE IF llm.fail THEN "LLM call failed: unavailable"
    ELSE IF IsJSONObject(llm.response) THEN ""
    ELSE LET start == Index(llm.response, "{")
             end   == LastIndex(llm.response, "}")
         IN  IF start # 0 /\ end > start
             THEN IF IsJSONObject(SubSeq(llm.response, start, end)) THEN ""
                  ELSE "failed to parse LLM response as JSON"
             ELSE "no JSON found in LLM response"

SchemaResult_hardError(command, genErr, helpText) ==
    IF genErr # ""
    THEN [result |-> <<>>, err |-> "schema generation failed: " \o genErr]
    ELSE [result |-> <<"# " \o CommandText(command) \o " Schema">>, err |-> ""]

\* Execute: what it returns once the help text is there; the result is the
\* sequence of the parts of the text
SchemaResult(command, genErr, helpText) ==
    IF genErr # ""
    THEN [result |-> <<"# " \o CommandText(command) \o " Help",
                       "Could not generate schema: " \o genErr,
                       "Raw help:", helpText>>,
          err |-> ""]
    ELSE [result |-> <<"# " \o CommandText(command) \o " Schema">>, err |-> ""]

\* the output of the help command: fewer than 20 bytes, or more
HelpOutputs == {"", "usage: tool [flags] [command]"}

\* args["subcommand"], a sequence of atoms as the command is; the empty
\* sequence is also what a missing or non-string subcommand is read as
DiscSubcommands == {<<>>, <<"departures">>, <<"status", ";", "rm">>}

DiscArgs ==
    {[kind |-> "missing", command |-> <<>>, subcommand |-> <<>>],
     [kind |-> "notString", command |-> <<>>, subcommand |-> <<>>]}
        \cup [kind : {"string"}, command : DiscCommands, subcommand : DiscSubcommands]

discRest == <<idleVars, hHistory, agentVars, sessVars, shPc, shArg, helpCache, spawned,
              discoveryInfo, shOutcome, shOutput, shErr, shCalls>>

\* NewGetCommandSchemaTool
DiscInit ==
    /\ RunnerIdle
    /\ ExtraIdle
    /\ hHistory = <<>>
    /\ AgentIdle
    /\ SessIdle
    /\ shPc = "off"
    /\ shArg = NoArg
    /\ shEnabled \in BOOLEAN
    /\ helpCache = {}
    /\ spawned = <<>>
    /\ discoveryInfo = ""
    /\ shOutcome = NoOutcome
    /\ shOutput = ""
    /\ shErr = ""
    /\ shCalls = 0
    /\ dPc = "idle"
    /\ dArg = [kind |-> "missing", command |-> <<>>, subcommand |-> <<>>]
    /\ dLLM = NoLLM
    /\ dHelp = ""
    /\ dSpawned = <<>>
    /\ dResult = <<>>
    /\ dErr = ""

\* Execute is called
DiscCall ==
    /\ dPc = "idle"
    /\ \E a \in DiscArgs : dArg' = a
    /\ dPc' = "validate"
    /\ UNCHANGED <<discRest, shEnabled, dLLM, dHelp, dSpawned, dResult, dErr>>

\* Execute: the checks of the argument, then isCommandAllowed
DiscValidate ==
    /\ dPc = "validate"
    /\ LET err == IF dArg.kind = "missing" THEN "missing required parameter: command"
                  ELSE IF dArg.kind = "notString" THEN "command must be a string"
                  ELSE IF ~isCommandAllowed(dArg.command, shEnabled)
                  THEN "command not in allowlist: " \o CommandText(dArg.command)
                  ELSE ""
       IN  /\ dErr' = err
           /\ dPc' = IF err # "" THEN "returned" ELSE "help"
    /\ UNCHANGED <<discRest, shEnabled, dArg, dLLM, dHelp, dSpawned, dResult>>

\* getHelpText: the string handed to sh -c
HelpCommand(command, subcommand) ==
    IF subcommand # <<>>
    THEN command \o <<Blank>> \o subcommand \o <<Blank, "--help">>
    ELSE command \o <<Blank, "--help">>

\* getHelpText: the help command is run; too short an output is an error
DiscHelp ==
    /\ dPc = "help"
    /\ dSpawned' = Append(dSpawned, HelpCommand(dArg.command, dArg.subcommand))
    /\ \E out \in HelpOutputs :
           IF out = ""
           THEN /\ dErr' = "failed to get help for " \o CommandText(dArg.command)
                               \o ": no help output available"
                /\ dPc' = "returned"
                /\ UNCHANGED dHelp
           ELSE /\ dHelp' = out
                /\ dPc' = "generate"
                /\ UNCHANGED dErr
    /\ UNCHANGED <<discRest, shEnabled, dArg, dLLM, dResult>>

\* Execute: generateSchema, then the schema or the fallback is returned
DiscGenerate ==
    /\ dPc = "generate"
    /\ \E llm \in LLMs :
           /\ dLLM' = llm
           /\ dResult' = SchemaResult(dArg.command, generateSchema(llm), dHelp).result
           /\ dErr' = SchemaResult(dArg.command, generateSchema(llm), dHelp).err
    /\ dPc' = "returned"
    /\ UNCHANGED <<discRest, shEnabled, dArg, dHelp, dSpawned>>

DiscNext ==
    \/ DiscCall
    \/ DiscValidate
    \/ DiscHelp
    \/ DiscGenerate

DiscSpec == DiscInit /\ [][DiscNext]_vars

----------------------------------------------------------------------------
(* The StepLogger of one Pipeline, with the requests the Pipeline serves;   *)
(* Reset and nextIndex each run under the logger's mutex                     *)

\* everything but the variables of the shared objects
progVars == <<runVars, eventChan, hVars, agentVars, sessVars, shellVars, discVars>>

RecordKinds == {"plan", "execution"}

RecordsOf(r) == SelectSeq(slLog, LAMBDA rec : rec.run = r)

\* NewStepLogger, SetStepLogger; no request has started
LogInit ==
    /\ RunnerIdle
    /\ hHistory = <<>>
    /\ AgentIdle /\ SessIdle /\ ShellIdle /\ DiscIdle
    /\ ConcIdle /\ ObsIdle
    /\ slIndex = 0
    /\ slPc = [r \in Runs |-> "idle"]
    /\ slLog = <<>>

\* Run of a request starts: StepLogger.Reset
LogReset(r) ==
    /\ slPc[r] = "idle"
    /\ slIndex' = 0
    /\ slPc' = [slPc EXCEPT ![r] = "running"]
    /\ UNCHANGED <<progVars, slLog, concVars, obsVars>>

\* logPlan or logExecution of a request: nextIndex, then the record is
\* written under that index
LogRecord(r) ==
    /\ slPc[r] = "running"
    /\ Len(RecordsOf(r)) < MaxRecords
    /\ \E k \in RecordKinds : slLog' = Append(slLog, [run |-> r, kind |-> k, index |-> slIndex])
    /\ slIndex' = slIndex + 1
    /\ UNCHANGED <<progVars, slPc, concVars, obsVars>>

\* Run of a request returns
LogReturn(r) ==
    /\ slPc[r] = "running"
    /\ slPc' = [slPc EXCEPT ![r] = "done"]
    /\ UNCHANGED <<progVars, slIndex, slLog, concVars, obsVars>>

LogNext == \E r \in Runs : LogReset(r) \/ LogRecord(r) \/ LogReturn(r)

LogSpec == LogInit /\ [][LogNext]_vars

----------------------------------------------------------------------------
(* One ShellTool called from several goroutines (the runners of concurrent   *)
(* requests, the /tool/run endpoint): runToolDiscoveryIfNeeded               *)

concRest == <<runVars, eventChan, hVars, agentVars, sessVars, discVars, logVars, obsVars,
              shPc, shArg, shEnabled, spawned, discoveryInfo, shOutcome, shOutput, shErr,
              shCalls>>

\* the base commands of the calls: an external shell tool and a well-known
\* command, both accepted by validateCommand
CBases == {"tfl", "date"}

CallsReturned(g) == Cardinality({i \in 1..Len(cLog) : cLog[i].g = g /\ cLog[i].what = "returned"})

\* NewShellToolWithExternalTools: nothing is cached, nobody is calling
ConcInit ==
    /\ RunnerIdle
    /\ hHistory = <<>>
    /\ AgentIdle /\ SessIdle /\ ShellIdle /\ DiscIdle
    /\ LogIdle /\ ObsIdle
    /\ cPc = [g \in Goroutines |-> "idle"]
    /\ cBase = [g \in Goroutines |-> ""]
    /\ cText = [g \in Goroutines |-> ""]
    /\ cLog = <<>>

\* Execute is called with a command that validateCommand accepts
ConcExecute(g) ==
    /\ cPc[g] = "idle"
    /\ CallsReturned(g) < MaxCalls
    /\ \E b \in CBases : cBase' = [cBase EXCEPT ![g] = b]
    /\ cText' = [cText EXCEPT ![g] = ""]
    /\ cPc' = [cPc EXCEPT ![g] = "check"]
    /\ UNCHANGED <<concRest, helpCache, cLog>>

\* runToolDiscoveryIfNeeded: the well-known test, then the cache lookup
\* under the read lock, which is released before anything else is done
ConcCheck(g) ==
    /\ cPc[g] = "check"
    /\ cPc' = [cPc EXCEPT ![g] = IF cBase[g] \in wellKnownCommands \/ cBase[g] \in helpCache
                                  THEN "run" ELSE "discover"]
    /\ UNCHANGED <<concRest, helpCache, cBase, cText, cLog>>

\* runToolDiscoveryIfNeeded: discovery is run, with no lock held
ConcDiscover(g) ==
    /\ cPc[g] = "discover"
    /\ \E text \in {"", "usage"} :
           /\ cText' = [cText EXCEPT ![g] = text]
           /\ cLog' = Append(cLog, [g |-> g, what |-> "discovered", base |-> cBase[g], text |-> text])
    /\ cPc' = [cPc EXCEPT ![g] = "store"]
    /\ UNCHANGED <<concRest, helpCache, cBase>>

\* runToolDiscoveryIfNeeded: the result is cached under the write lock
ConcStore(g) ==
    /\ cPc[g] = "store"
    /\ helpCache' = helpCache \cup {cBase[g]}
    /\ cPc' = [cPc EXCEPT ![g] = "run"]
    /\ UNCHANGED <<concRest, cBase, cText, cLog>>

\* Execute: the command is run and the output returned, after the discovery
\* text if there is one
ConcReturn(g) ==
    /\ cPc[g] = "run"
    /\ cLog' = Append(cLog, [g |-> g, what |-> "returned", base |-> cBase[g], text |-> cText[g]])
    /\ cPc' = [cPc EXCEPT ![g] = "idle"]
    /\ UNCHANGED <<concRest, helpCache, cBase, cText>>

ConcNext ==
    \E g \in Goroutines :
        \/ ConcExecute(g)
        \/ ConcCheck(g)
        \/ ConcDiscover(g)
        \/ ConcStore(g)
        \/ ConcReturn(g)

ConcSpec == ConcInit /\ [][ConcNext]_vars

----------------------------------------------------------------------------
(* The command observer of the shared ShellTool: processChat installs a      *)
(* closure sending on its request's event channel; the ShellTool calls the   *)
(* installed observer inline, before spawning, on every execution            *)

obsRest == <<progVars, logVars, concVars>>

\* the event channel of the latest request of a connection
ChanOf(c) == <<c, oReq[c]>>

\* a send on a closed channel panics
Panicked == \E i \in 1..Len(oSends) : oSends[i].closed

\* the observer is called: eventChan <- Event{ShellCommand}
Observe(by) ==
    oSends' = Append(oSends, [by |-> by, chan |-> observer, closed |-> observer \in oClosed])

\* NewServer: the ShellTool is registered and given to the Handler; no
\* observer is installed
ObsInit ==
    /\ RunnerIdle
    /\ hHistory = <<>>
    /\ AgentIdle /\ SessIdle /\ ShellIdle /\ DiscIdle
    /\ LogIdle /\ ConcIdle
    /\ ObsIdle

\* processChat of a connection: the event channel is made, the observer is
\* installed, the runner goroutine is started
ObsStart(c) ==
    /\ ~Panicked
    /\ ~oRun[c]
    /\ oReq[c] < MaxRequests
    /\ oReq' = [oReq EXCEPT ![c] = oReq[c] + 1]
    /\ observer' = <<c, oReq[c] + 1>>
    /\ oRun' = [oRun EXCEPT ![c] = TRUE]
    /\ UNCHANGED <<obsRest, oClosed, oSends>>

\* the runner of a connection's request executes a step of the shell tool
ObsShell(c) ==
    /\ ~Panicked
    /\ oRun[c]
    /\ Len(oSends) < MaxCalls
    /\ Observe(c)
    /\ UNCHANGED <<obsRest, oRun, oReq, observer, oClosed>>

\* handleToolRun: registry.Execute of the shell tool, outside any request
ObsToolRun ==
    /\ ~Panicked
    /\ observer # NoChan
    /\ Len(oSends) < MaxCalls
    /\ Observe("toolrun")
    /\ UNCHANGED <<obsRest, oRun, oReq, observer, oClosed>>

\* Run of a connection's request returns: the deferred close(eventChan)
ObsEnd(c) ==
    /\ ~Panicked
    /\ oRun[c]
    /\ oClosed' = oClosed \cup {ChanOf(c)}
    /\ oRun' = [oRun EXCEPT ![c] = FALSE]
    /\ UNCHANGED <<obsRest, oReq, observer, oSends>>

ObsNext ==
    \/ \E c \in Conns : ObsStart(c) \/ ObsShell(c) \/ ObsEnd(c)
    \/ ObsToolRun

ObsSpec == ObsInit /\ [][ObsNext]_vars

----------------------------------------------------------------------------
(* Vocabulary of the properties *)

Idx(kind) == {i \in 1..Len(trace) : trace[i].kind = kind}

Count(kind) == Cardinality(Idx(kind))

CountIn(kind, k) == Cardinality({i \in Idx(kind) : trace[i].iter = k})

StepKinds == {"StepStarted", "ToolCall", "Invoke", "Outcome", "ToolResult"}

ExecPcs == {"step", "stepStarted", "toolCall", "exec", "running", "toolResult"}

Succeeded == pc = "done" /\ retErr = ""

CircularError == "execution failed: circular dependency detected in plan steps"

----------------------------------------------------------------------------
(* Returned history *)

\* C1: whenever Run returns without error, the returned history is the input
\* history (unchanged, as a prefix) followed by exactly two messages: the
\* user message with the utterance as given, then the assistant message with
\* the final answer of the synthesis call.
C1_ReturnedHistory ==
    Succeeded =>
        /\ Len(retHistory) = Len(opts) + 2
        /\ \A i \in 1..Len(opts) : retHistory[i] = opts[i]
        /\ retHistory[Len(opts) + 1].Role = "user"
        /\ retHistory[Len(opts) + 1].Content = userMessage
        /\ retHistory[Len(opts) + 2].Role = "assistant"
        /\ retHistory[Len(opts) + 2].Content = response

C1_Witness ==
    /\ Succeeded
    /\ Len(opts) = 2
    /\ response = "It is 12:00 PM."
    /\ Count("ToolResult") > 0

----------------------------------------------------------------------------
(* The event channel is closed exactly once, on every exit *)

\* C2: Run has returned (whatever the exit: success, planning or parse
\* error, validation error, circular dependency, synthesis error,
\* cancellation) exactly when the event channel has been closed; it is
\* closed at most once, and the close is the last thing Run does: no event
\* is emitted after it.
C2_ClosedExactlyOnce ==
    /\ Count("Close") <= 1
    /\ (pc = "done") <=> (Count("Close") = 1)
    /\ \A i \in Idx("Close") : i = Len(trace)

C2_Witness ==
    /\ pc = "done"
    /\ retErr = "execution failed: context canceled"
    /\ Count("ToolResult") = 1
    /\ Count("Close") = 1

----------------------------------------------------------------------------
(* The iteration cap *)

\* C3: once MaxIterations consecutive plans were not terminal, Run makes no
\* synthesis call and returns an error and no history.
C3_IterationLimitIsAnError ==
    iteration >= MaxIterations =>
        /\ pc \notin {"synth", "stream"}
        /\ Count("SynthCall") = 0
        /\ pc = "done" => (retErr # "" /\ retHistory = NoHistory)

\* C4: in one Run the planner LM is called at most MaxIterations times and
\* at most MaxIterations PlanGenerated events are emitted.
C4_IterationBound ==
    /\ Count("PlanCall") <= MaxIterations
    /\ Count("PlanGenerated") <= MaxIterations
    /\ iteration <= MaxIterations

C4_Witness ==
    /\ Count("PlanCall") = MaxIterations
    /\ Count("PlanGenerated") = MaxIterations
    /\ pc = "done"

----------------------------------------------------------------------------
(* ready_to_answer ends planning *)

\* C5: after the PlanGenerated event of a plan with ready_to_answer=true
\* (at whatever iteration, with or without steps) there is no planning call,
\* no step event and no tool invocation: only the synthesis call, its Text
\* events and the close follow.  When the first plan is such a plan, there
\* is one PlanGenerated event and no ToolCall event, and a run that succeeds
\* on an empty history returns two messages.
C5_ReadyEndsPlanning ==
    /\ \A i \in Idx("PlanGenerated") :
           trace[i].ok =>
               \A j \in (i + 1)..Len(trace) : trace[j].kind \in {"SynthCall", "Text", "Close"}
    /\ (Count("PlanGenerated") > 0 /\ trace[2].kind = "PlanGenerated" /\ trace[2].ok) =>
           /\ Count("PlanGenerated") = 1
           /\ Count("ToolCall") = 0
           /\ (Succeeded /\ opts = <<>>) => Len(retHistory) = 2

C5_Witness ==
    /\ Succeeded
    /\ \E i \in Idx("PlanGenerated") : trace[i].ok /\ trace[i].n > 0 /\ trace[i].iter > 0
    /\ Count("Text") = 2

C5_FirstPlanWitness ==
    /\ Succeeded
    /\ opts = <<>>
    /\ trace[2].kind = "PlanGenerated" /\ trace[2].ok /\ trace[2].n = MaxSteps
    /\ Len(retHistory) = 2

----------------------------------------------------------------------------
(* Dependencies, cycles and validation *)

DependsEdges(steps) ==
    {e \in StepIDsOf(steps) \X StepIDsOf(steps) :
        \E i \in 1..Len(steps) : steps[i].ID = e[1] /\ steps[i].DependsOn = e[2]}

RECURSIVE Closure(_, _)
Closure(R, n) ==
    IF n = 0 THEN R
    ELSE LET joined == {ef \in R \X R : ef[1][2] = ef[2][1]}
         IN  Closure(R \cup {<<ef[1][1], ef[2][2]>> : ef \in joined}, n - 1)

HasCycle(steps) == \E e \in Closure(DependsEdges(steps), Len(steps)) : e[1] = e[2]

\* a step names an unregistered tool, or a depends_on that is no step id
BadStep(p) ==
    \E i \in 1..Len(p.Steps) :
        \/ p.Steps[i].Tool \notin RegisteredTools
        \/ p.Steps[i].DependsOn # NoDep /\ p.Steps[i].DependsOn \notin StepIDsOf(p.Steps)

NoStepEntriesIn(tr, k) == \A i \in 1..Len(tr) : tr[i].iter = k => tr[i].kind \notin StepKinds

\* C6: while a plan is executed, every ToolCall event and every tool
\* invocation of a step that depends on another step comes after that
\* step's tool invocation and after its ToolResult event.
C6_OrderRespectsDependencies ==
    pc \in ExecPcs =>
        \A j \in 1..Len(trace) :
            (trace[j].iter = iteration /\ trace[j].kind \in {"ToolCall", "Invoke"}) =>
                \A k \in 1..Len(plan.Steps) :
                    (plan.Steps[k].ID = trace[j].id /\ plan.Steps[k].DependsOn # NoDep) =>
                        \E i1, i2 \in 1..Len(trace) :
                            /\ i1 < i2 /\ i2 < j
                            /\ trace[i1].iter = iteration /\ trace[i1].kind = "Invoke"
                            /\ trace[i1].id = plan.Steps[k].DependsOn
                            /\ trace[i2].iter = iteration /\ trace[i2].kind = "ToolResult"
                            /\ trace[i2].id = plan.Steps[k].DependsOn

C6_Witness ==
    /\ pc = "step"
    /\ stepIdx > Len(ordered)
    /\ Len(plan.Steps) = 2
    /\ plan.Steps[1].DependsOn = plan.Steps[2].ID
    /\ CountIn("ToolResult", iteration) = 2

\* C7 as claimed: every plan whose depends_on graph has a cycle makes the
\* request fail with the circular-dependency error, with no step event and
\* no tool invocation for that plan.
C7_EveryCyclicPlanFails ==
    [][(pc = "dispatch" /\ HasCycle(plan.Steps) /\ pc' # "dispatch") =>
            /\ pc' = "done"
            /\ retErr' = CircularError
            /\ NoStepEntriesIn(trace', iteration)]_vars

\* C7 as amended: a plan whose depends_on graph has a cycle is never
\* executed (no step event, no tool invocation); and when such a plan has
\* needs_tools=true, ready_to_answer=false and passes validation, the
\* request fails with the circular-dependency error and returns no history.
C7_CyclicPlanNeverExecuted ==
    /\ [](pc \in ExecPcs => ~HasCycle(plan.Steps))
    /\ [][(pc = "dispatch" /\ HasCycle(plan.Steps) /\ pc' # "dispatch") =>
            /\ pc' \notin ExecPcs
            /\ NoStepEntriesIn(trace', iteration)
            /\ (plan.NeedsTools /\ ~plan.ReadyToAnswer /\ ~BadStep(plan)) =>
                   (pc' = "done" /\ retErr' = CircularError /\ retHistory' = NoHistory)]_vars

C7_Witness ==
    /\ pc = "done"
    /\ retErr = CircularError
    /\ Len(plan.Steps) = 2
    /\ plan.Steps[1].ID # plan.Steps[2].ID
    /\ HasCycle(plan.Steps)
    /\ NoStepEntriesIn(trace, iteration)

ValidationErrors ==
    {"validation failed: unknown tool", "validation failed: depends on unknown step"}

\* C8 as claimed: every plan with a step that names an unregistered tool or
\* an unknown dependency makes the request fail with a validation error.
C8_EveryBadPlanFails ==
    [][(pc = "dispatch" /\ BadStep(plan) /\ pc' # "dispatch") =>
            (pc' = "done" /\ retErr' \in ValidationErrors)]_vars

\* C8 as amended: no plan with a bad step (unregistered tool, unknown
\* dependency) is ever executed, not even its valid steps; and when such a
\* plan has needs_tools=true and ready_to_answer=false, the request fails
\* with a validation error and no history, its PlanGenerated event having
\* been emitted and no step event or tool invocation having happened.
C8_ValidationIsAllOrNothing ==
    /\ [](pc \in ExecPcs => ~BadStep(plan))
    /\ [][(pc = "dispatch" /\ BadStep(plan) /\ pc' # "dispatch") =>
            /\ pc' \notin ExecPcs
            /\ NoStepEntriesIn(trace', iteration)
            /\ (plan.NeedsTools /\ ~plan.ReadyToAnswer) =>
                   /\ pc' = "done"
                   /\ retErr' \in ValidationErrors
                   /\ retHistory' = NoHistory
                   /\ \E i \in 1..Len(trace') :
                          trace'[i].kind = "PlanGenerated" /\ trace'[i].iter = iteration]_vars

C8_Witness ==
    /\ pc = "done"
    /\ retErr = "validation failed: unknown tool"
    /\ Len(plan.Steps) = 2
    /\ plan.Steps[1].Tool = "clock"
    /\ plan.Steps[1].DependsOn = NoDep
    /\ CountIn("PlanGenerated", iteration) = 1
    /\ NoStepEntriesIn(trace, iteration)

----------------------------------------------------------------------------
(* Failure isolation and event order *)

\* C9 as claimed: for every iteration that is over, the number of ToolResult
\* events of the iteration is the number of steps of its plan.
C9_ResultsMatchStepsInEveryIteration ==
    \A i \in Idx("PlanGenerated") :
        trace[i].iter < iteration => CountIn("ToolResult", trace[i].iter) = trace[i].n

\* C9 as amended: for every iteration whose plan is executed (needs_tools=true,
\* ready_to_answer=false) and that runs to its end, the number of ToolResult
\* events (and of tool invocations) of the iteration is the number of steps
\* of its plan, whichever tools returned errors.
C9_FailingStepNeverAborts ==
    \A i \in Idx("PlanGenerated") :
        (trace[i].iter < iteration /\ trace[i].flag /\ ~trace[i].ok) =>
            /\ CountIn("ToolResult", trace[i].iter) = trace[i].n
            /\ CountIn("Invoke", trace[i].iter) = trace[i].n

C9_Witness ==
    /\ iteration = 1
    /\ CountIn("ToolResult", 0) = 2
    /\ \E i, j \in Idx("ToolResult") : i < j /\ ~trace[i].ok /\ trace[j].ok

ToolEventKinds == {"ToolCall", "ToolResult"}

\* C10: events are ordered by iteration: every ToolCall and ToolResult event
\* comes after the PlanGenerated event of its own iteration and before the
\* PlanGenerated event of any later iteration, there is one PlanGenerated
\* event per iteration, and every Text event comes after every PlanGenerated
\* and every ToolResult event.
C10_EventsOrderedByIteration ==
    /\ \A j \in 1..Len(trace) :
           trace[j].kind \in ToolEventKinds =>
               \E i \in 1..(j - 1) :
                   trace[i].kind = "PlanGenerated" /\ trace[i].iter = trace[j].iter
    /\ \A i \in Idx("PlanGenerated"), j \in 1..Len(trace) :
           (trace[j].kind \in ToolEventKinds /\ trace[j].iter < trace[i].iter) => j < i
    /\ \A i, j \in Idx("PlanGenerated") : i < j => trace[i].iter < trace[j].iter
    /\ \A t \in Idx("Text"), j \in Idx("PlanGenerated") \cup Idx("ToolResult") : j < t

C10_Witness ==
    /\ pc = "done"
    /\ CountIn("ToolResult", 0) = 2
    /\ CountIn("ToolResult", 1) = 1
    /\ Count("PlanGenerated") = 3
    /\ Count("Text") = 2

----------------------------------------------------------------------------
(* Tool outcomes and the accumulated results *)

\* the k-th smallest element of a set of trace indices
Nth(S, k) == CHOOSE i \in S : Cardinality({j \in S : j < i}) = k - 1

\* the StepResults recorded so far, oldest first
ResultLog == allResults \o results

\* C11: every ToolResult event reports the outcome registry.Execute has just
\* returned for that step: success is false exactly when an error was
\* returned, and then the output is "Error: " followed by the error message,
\* else it is the tool's output; the StepResult recorded with the event
\* carries the same step, tool, output and success, and its error is empty
\* if and only if success is true.
C11_OutcomeReported ==
    /\ \A i \in Idx("ToolResult") :
           /\ i > 1
           /\ trace[i - 1].kind = "Outcome"
           /\ trace[i - 1].id = trace[i].id
           /\ trace[i - 1].name = trace[i].name
           /\ trace[i].ok = trace[i - 1].ok
           /\ trace[i].out = IF trace[i - 1].ok THEN trace[i - 1].out
                                                ELSE "Error: " \o trace[i - 1].out
    /\ Len(ResultLog) = Count("ToolResult")
    /\ \A k \in 1..Len(ResultLog) :
           LET r == ResultLog[k]
               e == trace[Nth(Idx("ToolResult"), k)]
           IN  /\ r.StepID = e.id
               /\ r.Tool = e.name
               /\ r.Success = e.ok
               /\ r.Output = e.out
               /\ (r.Error = "") <=> r.Success
               /\ ~r.Success => r.Output = "Error: " \o r.Error

C11_Witness ==
    /\ iteration = 1
    /\ Len(allResults) = 2
    /\ ~allResults[1].Success
    /\ allResults[1].Output = "Error: tool failed"
    /\ allResults[2].Success
    /\ allResults[2].Output = "12:00 PM"

ToolResultsBefore(i) == {j \in Idx("ToolResult") : j < i}

\* the StepResults of the ToolResult events emitted before trace entry i
LogBefore(i) ==
    [k \in 1..Cardinality(ToolResultsBefore(i)) |->
        LET j == Nth(ToolResultsBefore(i), k)
        IN  [StepID  |-> trace[j].id,
             Tool    |-> trace[j].name,
             Output  |-> trace[j].out,
             Success |-> trace[j].ok,
             Error   |-> IF trace[j].ok THEN "" ELSE trace[j - 1].out]]

IsPrefix(a, b) == Len(a) <= Len(b) /\ \A i \in 1..Len(a) : a[i] = b[i]

\* C12: the accumulated results only grow, and only by the results of the
\* iteration that has just been executed, appended in execution order; they
\* are the StepResults of all the steps executed so far, in order; and the
\* tool results rendered into the prompt of every planning call and of the
\* synthesis call are all the results accumulated before the call.
C12_AppendOnlyLog ==
    /\ [](ResultLog = LogBefore(Len(trace) + 1))
    /\ [](\A i \in Idx("PlanCall") \cup Idx("SynthCall") :
              trace[i].prompt = formatToolResults(LogBefore(i)))
    /\ [][/\ IsPrefix(allResults, allResults')
          /\ allResults' # allResults =>
                 (pc = "step" /\ pc' = "loop" /\ allResults' = allResults \o results)]_vars

C12_Witness ==
    /\ pc = "done"
    /\ \E i \in Idx("SynthCall") :
           /\ Len(trace[i].prompt) = 3
           /\ trace[i].prompt[1].Label = "Error"
           /\ trace[i].prompt[3].Label = "Output"
    /\ \E i \in Idx("PlanCall") : trace[i].iter = 1 /\ Len(trace[i].prompt) = 2

----------------------------------------------------------------------------
(* Cancellation *)

\* C13: when the context is cancelled at the top of an iteration, Run
\* returns the cancellation error and no history and closes the event
\* channel, without a planning call, a tool invocation or a synthesis call.
C13_CancelledAtIterationStart ==
    [][(pc = "loop" /\ iteration < MaxIterations /\ ctxDone /\ pc' # pc) =>
            /\ pc' = "done"
            /\ retErr' = "context canceled"
            /\ retHistory' = NoHistory
            /\ trace' = Append(trace, Mark("Close"))]_vars

C13_Witness ==
    /\ pc = "done"
    /\ retErr = "context canceled"
    /\ iteration = 2
    /\ Count("PlanCall") = 2
    /\ Count("SynthCall") = 0

\* C14: a tool that is running when the request is cancelled is stopped: it
\* does not run on to a successful completion of its own.
C14_CancelStopsRunningTool ==
    [][(pc = "running" /\ ctxDone) => ~(pc' = "toolResult" /\ ~toolErr')]_vars

----------------------------------------------------------------------------
(* The Session Handler *)

FrameIdx(kind) == {i \in 1..Len(frames) : frames[i].kind = kind}

TerminalIdx == FrameIdx("Done") \cup FrameIdx("Error")

\* C15: Handler.history changes only when processChat takes the history the
\* runner returned without error, and then it becomes exactly that history;
\* when the runner returns an error, or a write to the client fails while
\* the events are streamed, it stays what it was before the request.
C15_HistoryOnlyOnSuccess ==
    /\ [](hpc = "streaming" => hHistory = opts)
    /\ [][(hpc = "streaming" /\ hpc' # "streaming") =>
             IF eventChan = <<>> /\ pc = "done" /\ retErr = ""
             THEN hHistory' = retHistory
             ELSE hHistory' = opts]_vars
    /\ [][hpc # "streaming" => hHistory' = hHistory]_vars

C15_Witness ==
    /\ hpc = "idle"
    /\ Len(opts) = 2
    /\ hHistory = retHistory
    /\ Len(hHistory) = 4
    /\ FrameIdx("Done") # {}
    /\ FrameIdx("ToolResult") # {}

\* C16 as claimed: once a request has been served (the connection being
\* alive), the last frame is Done, and when the pipeline failed the frame
\* before it is the Error frame.
C16_AlwaysDone ==
    (hpc = "idle" /\ ~connBroken) =>
        /\ Len(frames) > 0
        /\ frames[Len(frames)].kind = "Done"
        /\ hErr # "" => (Len(frames) > 1 /\ frames[Len(frames) - 1].kind = "Error")

\* C16 as amended: once a request has been served (the connection being
\* alive), a Done frame has been sent exactly when the pipeline succeeded,
\* and it is the last frame; when the pipeline failed, the last frame is the
\* single Error frame, which carries the error, and no Done frame was sent.
C16_DoneOnlyOnSuccess ==
    (hpc = "idle" /\ ~connBroken) =>
        /\ hErr = retErr
        /\ Len(frames) > 0
        /\ IF retErr = ""
           THEN /\ frames[Len(frames)].kind = "Done"
                /\ Cardinality(FrameIdx("Done")) = 1
                /\ FrameIdx("Error") = {}
           ELSE /\ frames[Len(frames)].kind = "Error"
                /\ frames[Len(frames)].out = retErr
                /\ Cardinality(FrameIdx("Error")) = 1
                /\ FrameIdx("Done") = {}

C16_Witness ==
    /\ hpc = "idle"
    /\ ~connBroken
    /\ retErr = "synthesis failed"
    /\ frames[Len(frames)].kind = "Error"
    /\ FrameIdx("Text") # {}
    /\ FrameIdx("ToolResult") # {}

----------------------------------------------------------------------------
(* Synthesis *)

\* the tokens of the Text events emitted so far, in order
TextTokens == [k \in 1..Count("Text") |-> trace[Nth(Idx("Text"), k)].name]

\* the contents of the Text frames written so far, in order
FrameTexts ==
    [k \in 1..Cardinality(FrameIdx("Text")) |-> frames[Nth(FrameIdx("Text"), k)].out]

\* the tokens of the Text events waiting in the event channel, in order
RECURSIVE TextsOf(_)
TextsOf(q) ==
    IF q = <<>> THEN <<>>
    ELSE (IF Head(q).kind = "Text" THEN <<Head(q).name>> ELSE <<>>) \o TextsOf(Tail(q))

RECURSIVE Concat(_)
Concat(q) == IF q = <<>> THEN "" ELSE Head(q) \o Concat(Tail(q))

C19_AnswerIsStreamedText ==
    Succeeded =>
        /\ retHistory[Len(retHistory)].Role = "assistant"
        /\ retHistory[Len(retHistory)].Content = Concat(TextTokens)
        /\ content = Concat(TextTokens)

C19_Witness ==
    /\ Succeeded
    /\ Count("Text") = 2
    /\ retHistory[Len(retHistory)].Content = "It is 12:00 PM."
    /\ opts = <<>>

PlanningErrors ==
    {"planning failed: lm error", "planning failed: no plan block",
     "planning failed: needs_tools without steps"}

\* C20: a planning call either gives a plan ParsePlan accepts or makes Run
\* return a planning error at once; a failed synthesis call makes Run return
\* the synthesis error once the token channel is drained; in both cases Run
\* returns no history, the close of the event channel is the last thing it
\* does, and nothing (no planning call, no tool, no synthesis call) comes
\* between the failed call and the close but the Text events of the tokens
\* streamed before a synthesis failure.
C20_PlannerAndSynthesisFailuresAreTerminal ==
    /\ []((pc = "done" /\ retErr \in PlanningErrors) =>
             /\ retHistory = NoHistory
             /\ Len(trace) >= 2
             /\ trace[Len(trace)].kind = "Close"
             /\ trace[Len(trace) - 1].kind = "PlanCall")
    /\ []((pc = "done" /\ retErr = "synthesis failed") =>
             /\ retHistory = NoHistory
             /\ Count("SynthCall") = 1
             /\ trace[Len(trace)].kind = "Close"
             /\ \A i \in Idx("SynthCall") : \A j \in (i + 1)..(Len(trace) - 1) :
                    trace[j].kind = "Text")
    /\ [][(pc = "plan" /\ pc' # pc) =>
             \/ pc' = "emitPlan" /\ ParsePlanAccepts(plan')
             \/ pc' = "done" /\ retErr' \in PlanningErrors /\ retHistory' = NoHistory]_vars
    /\ [][(pc = "stream" /\ lmFail /\ pc' # pc) =>
             (pc' = "done" /\ retErr' = "synthesis failed" /\ retHistory' = NoHistory)]_vars

C20_Witness ==
    /\ pc = "done"
    /\ retErr = "synthesis failed"
    /\ Count("Text") = 1
    /\ Count("ToolResult") = 2
    /\ iteration = 1

----------------------------------------------------------------------------
(* Plans without steps *)

\* C28: a plan text with needs_tools=true and no step is rejected by the
\* parser (the request fails with the planning error) unless it has
\* ready_to_answer=true, and then it is accepted; so every plan the loop of
\* Run works on that has needs_tools=true and ready_to_answer=false has at
\* least one step.
C28_NeedsToolsHasSteps ==
    /\ \A ready \in BOOLEAN :
           ParsePlanAccepts([NeedsTools |-> TRUE, ReadyToAnswer |-> ready, Steps |-> <<>>])
               <=> ready
    /\ (pc \in {"emitPlan", "dispatch"} \cup ExecPcs /\ plan.NeedsTools /\ ~plan.ReadyToAnswer) =>
           Len(plan.Steps) > 0
    /\ \A i \in Idx("PlanGenerated") : (trace[i].flag /\ ~trace[i].ok) => trace[i].n > 0
    /\ retErr = "planning failed: needs_tools without steps" =>
           (pc = "done" /\ retHistory = NoHistory /\ trace[Len(trace) - 1].kind = "PlanCall")

C28_Witness ==
    /\ Succeeded
    /\ \E i \in Idx("PlanGenerated") : trace[i].flag /\ trace[i].ok /\ trace[i].n = 0
    /\ Count("PlanGenerated") = 1

\* C30: after the PlanGenerated event of a plan with no step,
\* ready_to_answer=false and needs_tools=false, Run makes no planning call
\* and invokes no tool: the synthesis call follows, with all the results
\* accumulated so far rendered into its prompt.
C30_EmptyPlanGoesToSynthesis ==
    \A i \in Idx("PlanGenerated") :
        (~trace[i].ok /\ ~trace[i].flag /\ trace[i].n = 0) =>
            /\ \A j \in (i + 1)..Len(trace) : trace[j].kind \in {"SynthCall", "Text", "Close"}
            /\ Len(trace) > i =>
                   /\ trace[i + 1].kind = "SynthCall"
                   /\ trace[i + 1].prompt = formatToolResults(LogBefore(i))
            /\ pc \in {"dispatch", "synth", "stream", "done"}

C30_Witness ==
    /\ Succeeded
    /\ \E i \in Idx("PlanGenerated") :
           /\ ~trace[i].ok /\ ~trace[i].flag /\ trace[i].n = 0
           /\ trace[i].iter = 1
           /\ Len(trace[i + 1].prompt) = 2
    /\ Count("Text") = 2

----------------------------------------------------------------------------
(* The Agent runner *)

\* C22: the history the Session Handler stores, and passes as the history
\* of the next request, holds only user and assistant messages.
C22_OnlyUserAndAssistantPersisted ==
    \A i \in 1..Len(hHistory) : hHistory[i].Role \in {"user", "assistant"}

\* the last LM call of the request
LastChatCall == trace[Nth(Idx("ChatCall"), Count("ChatCall"))]

\* C29: Agent.Run emits Text events only in the final round, the one whose
\* result has no tool calls: no Text event exists while a round is streaming
\* or its tool calls are processed, every Text event comes after every
\* ToolCall and ToolResult event and after the last LM call, and the Text
\* events followed by the tokens still buffered are the tokens of that final
\* round, in order; on success all of them have been emitted.
C29_OnlyFinalTextEmitted ==
    /\ Count("Text") > 0 =>
           /\ pc \in {"agentFlush", "done"}
           /\ lmCalls = <<>>
           /\ ~LastChatCall.flag
    /\ \A i \in Idx("Text") :
           /\ \A j \in Idx("ToolCall") \cup Idx("ToolResult") \cup Idx("ChatCall") : j < i
           /\ trace[i].id = "assistant"
    /\ pc = "agentFlush" =>
           /\ Concat(TextTokens \o bufferedTokens) = response
           /\ Len(TextTokens \o bufferedTokens) = LastChatCall.n
    /\ (pc = "done" /\ retErr = "" /\ Count("ChatCall") > 0) =>
           /\ Concat(TextTokens) = response
           /\ Count("Text") = LastChatCall.n

C29_Witness ==
    /\ pc = "done"
    /\ retErr = ""
    /\ Count("ChatCall") = 2
    /\ Count("ToolResult") = 2
    /\ TextTokens = <<"It is ", "12:00 PM.">>
    /\ trace[1].kind = "ChatCall"
    /\ trace[1].flag
    /\ trace[1].n = 2

----------------------------------------------------------------------------
(* Sessions *)

\* C21: the history a request is started with holds only turns of the
\* connection the request came in on, and the first request of a connection
\* is started with an empty history.
C21_SessionStatePerConnection ==
    \A i \in 1..Len(sessLog) :
        /\ \A k \in 1..Len(sessLog[i].History) :
               sessLog[i].History[k].Role = "user" => sessLog[i].History[k].Content = sessLog[i].conn
        /\ (\A j \in 1..(i - 1) : sessLog[j].conn # sessLog[i].conn) => sessLog[i].History = <<>>

----------------------------------------------------------------------------
(* The Shell Tool *)

BannedSequences ==
    { <<"&", "&">>, <<"|", "|">>, <<";">>, <<"|">>, <<Backquote>>, <<"$", "(">>, <<"$", "{">>,
      <<">">>, <<"<">> }

Banned(cmd) == \E p \in BannedSequences : Contains(cmd, p)

\* Execute has returned
ShellReturned == shPc = "idle" /\ shCalls > 0

DisallowedPatternError ==
    \E p \in BannedSequences :
        /\ Contains(shArg.cmd, p)
        /\ shErr = "command contains disallowed pattern: " \o CommandText(p)

\* C23: for a command that contains a banned sequence Execute starts no
\* process at all, neither the command nor a help probe, and returns a
\* disallowed-pattern error with no output; the pipeline records such a step
\* as failed and goes on with the next step.
C23_BannedSequencesNeverRun ==
    (shArg.kind = "string" /\ Banned(shArg.cmd)) =>
        /\ spawned = <<>>
        /\ shPc \in {"validate", "idle"}
        /\ ShellReturned =>
               /\ DisallowedPatternError
               /\ shOutput = ""
               /\ ~StepResultOf([ClockStep EXCEPT !.Tool = "shell"], shErr # "").Success
               /\ AfterStep(1, shErr # "") = 2

C23_Witness ==
    /\ ShellReturned
    /\ shCalls = 1
    /\ shArg = StringArg(<<"date", Blank, ";">>)
    /\ shEnabled
    /\ shErr = "command contains disallowed pattern: ;"
    /\ spawned = <<>>

\* the first whitespace-separated token is in the allowlist or is the
\* access.command of an external tool of type shell
AllowedByRule(cmd) ==
    /\ Fields(cmd) # <<>>
    /\ \/ Fields(cmd)[1] \in Allowlist
       \/ \E ext \in ExternalTools : ext.Type = "shell" /\ ext.Command = Fields(cmd)[1]

\* C24 as stated: a process is started only for a command the rule allows,
\* and for every other command Execute returns a not-in-allowlist or
\* empty-command error and starts no process.
C24_RejectedAsNotInAllowlist ==
    /\ spawned # <<>> => (shArg.kind = "string" /\ AllowedByRule(shArg.cmd))
    /\ (ShellReturned /\ shArg.kind = "string" /\ ~AllowedByRule(shArg.cmd)) =>
           /\ spawned = <<>>
           /\ shOutput = ""
           /\ shErr = IF Fields(shArg.cmd) = <<>> THEN "empty command"
                      ELSE "command not in allowlist: " \o Fields(shArg.cmd)[1]

\* C24: a process is started only for a command the rule allows; for every
\* other command Execute returns an error and no output and starts no
\* process: the disallowed-pattern error when the command contains a banned
\* sequence, else the empty-command error when it has no token, else the
\* not-in-allowlist error naming the first token.
C24_OnlyAllowedCommandsRun ==
    /\ spawned # <<>> => (shArg.kind = "string" /\ AllowedByRule(shArg.cmd))
    /\ (ShellReturned /\ shArg.kind = "string" /\ ~AllowedByRule(shArg.cmd)) =>
           /\ spawned = <<>>
           /\ shOutput = ""
           /\ IF Banned(shArg.cmd) THEN DisallowedPatternError
              ELSE shErr = IF Fields(shArg.cmd) = <<>> THEN "empty command"
                           ELSE "command not in allowlist: " \o Fields(shArg.cmd)[1]

C24_Witness ==
    /\ ShellReturned
    /\ shCalls = 1
    /\ shArg = StringArg(<<"wx", Blank, "date">>)
    /\ shEnabled
    /\ shErr = "command not in allowlist: wx"
    /\ spawned = <<>>

\* C25 as stated: on a non-zero exit and on a timeout the returned output is
\* stdout, then a newline and stderr when stderr is not empty.
C25_OutputIsStdoutNewlineStderr ==
    (ShellReturned /\ shOutcome.exit \in {"failed", "timeout"}) =>
        /\ shErr = IF shOutcome.exit = "failed" THEN "command failed: exit status 1"
                   ELSE "command timed out after 30s"
        /\ shOutput = IF shOutcome.stderr # ""
                      THEN shOutcome.stdout \o "\n" \o shOutcome.stderr
                      ELSE shOutcome.stdout

\* stdout and stderr, with a newline between them when neither is empty
Merged(o) ==
    IF o.stderr = "" THEN o.stdout
    ELSE IF o.stdout = "" THEN o.stderr
    ELSE o.stdout \o "\n" \o o.stderr

\* C25: on a non-zero exit Execute returns the command-failed error and on a
\* timeout the timeout error, in both cases with the output the command
\* wrote: stdout, then stderr, with a newline between them when neither is
\* empty; on a non-zero exit of the first use of a command that was
\* discovered, the discovery text and a separator line come before it.
C25_OutputPreservedOnFailure ==
    (ShellReturned /\ shOutcome.exit \in {"failed", "timeout"}) =>
        /\ shErr = IF shOutcome.exit = "failed" THEN "command failed: exit status 1"
                   ELSE "command timed out after 30s"
        /\ shOutput = IF shOutcome.exit = "failed" /\ discoveryInfo # ""
                      THEN discoveryInfo \o "\n---\nCommand output:\n" \o Merged(shOutcome)
                      ELSE Merged(shOutcome)

C25_Witness ==
    /\ ShellReturned
    /\ shArg = StringArg(<<"tfl">>)
    /\ shOutcome = [exit |-> "failed", stdout |-> "out", stderr |-> "err"]
    /\ discoveryInfo = "usage"
    /\ shOutput = "usage\n---\nCommand output:\nout\nerr"
    /\ shErr = "command failed: exit status 1"

----------------------------------------------------------------------------
(* The Schema Discovery Tool *)

\* the response is not a JSON object, and neither is its part from the first
\* opening brace to the last closing brace
Unparsable(r) ==
    /\ ~IsJSONObject(r)
    /\ \A i, j \in 1..Len(r) :
           (/\ r[i] = "{"
            /\ \A k \in 1..(i - 1) : r[k] # "{"
            /\ r[j] = "}"
            /\ \A k \in (j + 1)..Len(r) : r[k] # "}"
            /\ i < j) => ~IsJSONObject(SubSeq(r, i, j))

\* C26: once the help text is there, an absent LM, a failed LM call and a
\* response that cannot be parsed all end in a result without an error
\* whose body holds the raw help text.
C26_SoftFallback ==
    (dPc = "returned" /\ dHelp # "" /\ (~dLLM.present \/ dLLM.fail \/ Unparsable(dLLM.response))) =>
        /\ dErr = ""
        /\ \E k \in 1..Len(dResult) : dResult[k] = dHelp
        /\ dResult[1] = "# " \o CommandText(dArg.command) \o " Help"

C26_Witness ==
    /\ dPc = "returned"
    /\ dArg.command = <<"git">>
    /\ dLLM = [present |-> TRUE, fail |-> FALSE, response |-> <<"text", "{", "text", "}">>]
    /\ dErr = ""
    /\ dResult[4] = "usage: tool [flags] [command]"

\* C27: get_command_schema goes by the first whitespace-separated token of
\* its command argument: the command is rejected as not in the allowlist
\* exactly when that token is neither allowed by the settings nor one of the
\* built-in developer tools.
C27_FirstTokenDecides ==
    (dPc \in {"help", "generate", "returned"} /\ dArg.kind = "string" /\ Fields(dArg.command) # <<>>) =>
        ((dErr = "command not in allowlist: " \o CommandText(dArg.command))
             <=> ~(\/ (shEnabled /\ Fields(dArg.command)[1] \in Allowlist)
                   \/ Fields(dArg.command)[1] \in safeCommands
                   \/ \E ext \in ExternalTools :
                          ext.Type = "shell" /\ ext.Command = Fields(dArg.command)[1]))

----------------------------------------------------------------------------
(* Plans that are skipped *)

\* the PlanGenerated events of plans with needs_tools=false,
\* ready_to_answer=false and at least one step
SkippedPlans == {i \in Idx("PlanGenerated") : ~trace[i].ok /\ ~trace[i].flag /\ trace[i].n > 0}

\* C39: after the PlanGenerated event of a plan with needs_tools=false,
\* ready_to_answer=false and steps, Run neither validates nor executes: the
\* next thing it does is the planning call of the next iteration, with the
\* accumulated results as they were (or the synthesis call when that was the
\* last iteration, or the return for a cancelled context); no step event and
\* no tool invocation belongs to that iteration.
C39_StepsWithoutNeedsToolsAreSkipped ==
    \A i \in SkippedPlans :
        /\ \A j \in 1..Len(trace) : trace[j].iter = trace[i].iter => trace[j].kind \notin StepKinds
        /\ (pc = "dispatch" /\ i = Len(trace)) => allResults = LogBefore(i)
        /\ Len(trace) > i =>
               /\ trace[i + 1].kind \in {"PlanCall", "SynthCall", "Close"}
               /\ trace[i + 1].iter = trace[i].iter + 1
               /\ trace[i + 1].kind = "PlanCall" =>
                      /\ trace[i].iter + 1 < MaxIterations
                      /\ trace[i + 1].prompt = formatToolResults(LogBefore(i))
               /\ trace[i + 1].kind = "SynthCall" =>
                      /\ trace[i].iter + 1 = MaxIterations
                      /\ trace[i + 1].prompt = formatToolResults(LogBefore(i))
               /\ trace[i + 1].kind = "Close" => retErr = "context canceled"

C39_Witness ==
    /\ Succeeded
    /\ \E i \in SkippedPlans :
           /\ trace[i].iter = 0
           /\ trace[i].n = 2
           /\ trace[i + 1].kind = "PlanCall"
    /\ Count("PlanCall") = 2
    /\ Count("SynthCall") = 1
    /\ Count("ToolResult") = 0

----------------------------------------------------------------------------
(* Sequential execution *)

\* what execute does for one step, in program order
StepBlock == <<"StepStarted", "ToolCall", "Invoke", "Outcome", "ToolResult">>

\* the position in StepBlock of trace entry i
BlockPos(i) ==
    LET kind == trace[i].kind
    IN  IF kind = "StepStarted" THEN 1
        ELSE IF kind = "ToolCall" THEN 2
        ELSE IF kind = "Invoke" THEN 3
        ELSE IF kind = "Outcome" THEN 4
        ELSE 5

\* C31: the steps are executed one after the other: a step's StepStarted,
\* ToolCall, tool invocation, tool return and ToolResult follow one another
\* with nothing in between, all with the step's tool name, ToolCall,
\* invocation and ToolResult with the step's id; at most one tool is running
\* at any time, exactly while Run waits for it, and no LM request is in flight
\* then; the synthesis request is the only LM request in flight while its
\* tokens are streamed, and at most one is made.
C31_StepsRunOneAtATime ==
    /\ \A i \in 1..Len(trace) :
           trace[i].kind \in StepKinds =>
               LET pos == BlockPos(i)
               IN  /\ pos > 1 =>
                          /\ i > 1
                          /\ trace[i - 1].kind = StepBlock[pos - 1]
                          /\ trace[i - 1].name = trace[i].name
                          /\ trace[i - 1].iter = trace[i].iter
                          /\ pos > 2 => trace[i - 1].id = trace[i].id
                   /\ (pos < 5 /\ i < Len(trace)) =>
                          trace[i + 1].kind = StepBlock[pos + 1]
    /\ Count("Invoke") - Count("Outcome") = (IF pc = "running" THEN 1 ELSE 0)
    /\ pc = "running" => trace[Len(trace)].kind = "Invoke"
    /\ Count("SynthCall") <= 1
    /\ (pc = "stream" /\ ~tokenClosed) =>
           /\ Count("Invoke") = Count("Outcome")
           /\ \A j \in 1..Len(trace) :
                  trace[j].kind = "SynthCall" =>
                      \A k \in (j + 1)..Len(trace) : trace[k].kind = "Text"

C31_Witness ==
    /\ pc = "toolResult"
    /\ stepIdx = 2
    /\ Len(trace) = 11
    /\ trace[8].kind = "StepStarted"
    /\ trace[9].id # trace[4].id
    /\ trace[11].kind = "Outcome"

\* ---------------------------------------------------------------------------
\* C38

\* two steps of the list carry the same id
HasDuplicateIds(steps) == \E i, j \in 1..Len(steps) : i # j /\ steps[i].ID = steps[j].ID

\* the plan of this iteration reaches execute: it is not ready to answer, it
\* asks for tools, and every step names a registered tool and known ids
ReachesExecute == /\ pc = "dispatch"
                  /\ ~ReadyToSynthesize(plan)
                  /\ NeedsExecution(plan)
                  /\ validate(plan) = ""

RunReturned ==
    /\ pc = "done"
    /\ EventChanClosed
    /\ (retErr = "") # (retHistory = NoHistory)

\* C36: Pipeline.Run terminates.  Under a fair scheduler, with every LM call
\* and every tool call returning and the consumer receiving, every call of
\* Run eventually returns either a history or an error and closes the event
\* channel, and at no time has it made more than 10 planning calls or more
\* than one synthesis call.
C36_RunTerminates ==
    /\ <>RunReturned
    /\ [](Count("PlanCall") <= MaxIterations /\ Count("SynthCall") <= 1)
    /\ [](RunReturned => trace[Len(trace)].kind = "Close" /\ Count("Close") = 1)

C36_Witness ==
    /\ RunReturned
    /\ retErr = ""
    /\ Count("PlanCall") = MaxIterations
    /\ Count("SynthCall") = 1
    /\ Count("Text") = 2

\* ---------------------------------------------------------------------------
\* C37

\* a shell string made of an allowed command name, at most one subcommand
\* word, and --help
IsHelpInvocation(s) ==
    \E name \in Words \cup safeCommands :
        /\ isCommandAllowed(<<name>>, shEnabled)
        /\ \/ s = <<name, Blank, "--help">>
           \/ \E w \in {"departures", "status", "rm"} : s = <<name, Blank, w, Blank, "--help">>

\* C37: every shell string get_command_schema hands to the shell interpreter
\* is an allowed command name, optionally one subcommand word, and --help,
\* and contains none of the banned metacharacter sequences, whatever the
\* command and subcommand arguments are.
C37_HelpStringsAreSafe ==
    \A i \in 1..Len(dSpawned) :
        /\ IsHelpInvocation(dSpawned[i])
        /\ ~HasDangerousPattern(dSpawned[i])

\* ---------------------------------------------------------------------------
\* C35

\* processChat has returned, with or without an error
ProcessChatReturned == hpc \in {"sendError", "idle"}

\* C35: whenever processChat has returned, early returns after a failed
\* write included, the runner goroutine it started eventually returns and
\* closes the event channel; it is never left blocked for ever on a send to
\* the full event channel.
C35_RunnerReturnsAfterProcessChat == ProcessChatReturned ~> RunReturned

\* ---------------------------------------------------------------------------
\* C32

\* C32: the step-log numbering is reset per request and has no gaps: the
\* records written during one request carry the indices 0, 1, 2, ... in the
\* order they are logged, so no two records of a request share an index,
\* whatever other requests are running on the Pipeline.
C32_RecordsNumberedPerRequest ==
    \A r \in Runs : \A i \in 1..Len(RecordsOf(r)) : RecordsOf(r)[i].index = i - 1

\* ---------------------------------------------------------------------------
\* C33

Discoveries(b) == {i \in 1..Len(cLog) : cLog[i].what = "discovered" /\ cLog[i].base = b}

\* C33: help discovery is run at most once per base command and ShellTool:
\* no base command is discovered twice, concurrent calls included; a call
\* returns discovery text only if it is the call that ran the discovery; a
\* discovery that has been stored is in the cache, empty or not; well-known
\* commands are never discovered nor cached.
C33_DiscoveryAtMostOnce ==
    /\ \A b \in CBases : Cardinality(Discoveries(b)) <= 1
    /\ \A b \in CBases :
           Cardinality({i \in 1..Len(cLog) : /\ cLog[i].what = "returned"
                                              /\ cLog[i].base = b
                                              /\ cLog[i].text # ""}) <= 1
    /\ \A i \in 1..Len(cLog) :
           cLog[i].what = "discovered" =>
               /\ cLog[i].base \notin wellKnownCommands
               /\ (cLog[i].base \in helpCache \/ cPc[cLog[i].g] = "store")
    /\ helpCache \cap wellKnownCommands = {}

\* ---------------------------------------------------------------------------
\* C34

\* C34: no event is ever sent on an event channel that has been closed: the
\* observer installed by processChat stays installed after its request has
\* ended, yet no later shell execution, by another connection's request or
\* by the /tool/run endpoint, makes it send on the closed channel.
C34_NoSendOnClosedChannel == \A i \in 1..Len(oSends) : ~oSends[i].closed

====
